---- MODULE Spec2Model ----
(***************************************************************************)
(* repo-file-sync-action: the Git session (src/src/helpers.js, class Git)  *)
(* with its verified-commit publisher, and the file materializer (copy).   *)
(*                                                                         *)
(* Spec      the session of one target repository: initRepo,               *)
(*           createPrBranch, commit, push and the replay of the local      *)
(*           commits through the Git Data API.                             *)
(* SpecCopy  copy() applied once or twice to a source and a destination    *)
(*           directory tree.                                               *)
(* SpecSession one session object taken through several repositories, with *)
(*           the staging, diff and pull request operations.                *)
(* SpecUpload one pass whose replay is followed call by call: the blob      *)
(*           uploads of a commit are in flight together.                   *)
(* SpecParse the two text parsers, parseGitDiffOutput and the line parser  *)
(*           of getTreeDiff, applied to the output git prints.             *)
(***************************************************************************)
EXTENDS Integers, Sequences, FiniteSets, TLC

VARIABLES
    cfg,            \* process-wide configuration (config.js), read-only
    pc,             \* position of the session
    repo,           \* this.repo
    lastCommitSha,  \* this.lastCommitSha
    prBranch,       \* this.prBranch
    baseBranch,     \* this.baseBranch
    localBranch,    \* the branch checked out in the working clone
    headTree,       \* tree of the commit lastCommitSha..HEAD starts from
    localCommits,   \* local commits made in the clone, oldest first
    commits,        \* createGithubVerifiedCommits: const commits
    idx,            \* createGithubVerifiedCommits: position of the for loop
    preSha,         \* lastCommitSha when push() was called (history variable)
    apiLog,         \* the calls of the Git Data API, the fork and the compare
                    \* call issued since initRepo, in order (history variable)
    raised,         \* the error push() rejected with, or NoError
    disk,           \* copy: the files on disk, path -> content
    disk0,          \* copy: the disk before the first copy (history variable)
    rule,           \* copy: the call's arguments (src, dest, isDirectory, file)
    copies,         \* copy: the calls made so far
    copyError,      \* copy: whether the last call threw
    filtered,       \* copy: the filter's answers in the last call (history variable)
    parseJob,       \* parsers: the function called and the text it is given
    parseOut,       \* parsers: what the call returned
    workingDir,     \* this.workingDir
    gitUrl,         \* this.gitUrl
    existingPr,     \* this.existingPr
    lastCommitChanges, \* this.lastCommitChanges
    remotePr,       \* the open pull request the platform holds for the head
    lastResult,     \* what the last operation returned
    lastOp,         \* the last operation run, with what its environment
                    \* answered (history variable)
    origin,         \* for each field of the session, the repository whose
                    \* pass assigned it last (history variable)
    blobUploads,    \* SpecUpload: the uploadGitHubBlob calls of the commit
                    \* being replayed, each with the point it has reached
    awaited         \* SpecUpload: the state of the Promise.all over them

sessionVars == <<cfg, pc, repo, lastCommitSha, prBranch, baseBranch, localBranch,
                 headTree, localCommits, commits, idx, preSha, apiLog, raised>>

copyVars == <<disk, disk0, rule, copies, copyError, filtered>>

parseVars == <<parseJob, parseOut>>

fieldVars == <<workingDir, gitUrl, existingPr, lastCommitChanges>>

pullVars == <<remotePr, lastResult>>

ghostVars == <<lastOp, origin>>

uploadVars == <<blobUploads, awaited>>

vars == <<sessionVars, copyVars, parseVars, fieldVars, pullVars, ghostVars, uploadVars>>

(***************************************************************************)
(* Bounds                                                                  *)
(***************************************************************************)
MaxCommits == 2
MaxCopies == 2

(***************************************************************************)
(* Values                                                                  *)
(***************************************************************************)
Undefined == "undefined"

\* No parser call is being followed
NoJob == [fn |-> "none"]
NoOutput == [done |-> FALSE]
Null == "null"
NoError == "none"
NoFork == ""

\* A path is the sequence of its space-separated words: "a b.txt" is
\* <<"a", "b.txt">>.
Paths == { <<"x.txt">>, <<"y.txt">>, <<"a", "b.txt">> }

\* What a path can end up as once a tree-diff line is split on spaces.
AllPaths == Paths \cup { <<p[1]>> : p \in Paths }

PathOrder == << <<"a">>, <<"a", "b.txt">>, <<"x.txt">>, <<"y.txt">> >>

\* An absent entry, as git diff-tree prints it.
NoEntry == [mode |-> "000000", blob |-> "0000000"]

EntriesOf(p) ==
    IF p = <<"x.txt">> THEN { [mode |-> "100644", blob |-> "b1"],
                              [mode |-> "100644", blob |-> "b2"] }
    ELSE IF p = <<"y.txt">> THEN { [mode |-> "100755", blob |-> "b1"] }
    ELSE IF p = <<"a", "b.txt">> THEN { [mode |-> "100644", blob |-> "b2"] }
    ELSE {}

\* The trees a working clone can hold: a tree maps each path to its entry.
LocalTrees ==
    { [p \in AllPaths |-> IF p = <<"x.txt">> THEN ex
                          ELSE IF p = <<"y.txt">> THEN ey
                          ELSE IF p = <<"a", "b.txt">> THEN eab
                          ELSE NoEntry] :
        ex \in EntriesOf(<<"x.txt">>) \cup {NoEntry},
        ey \in EntriesOf(<<"y.txt">>) \cup {NoEntry},
        eab \in EntriesOf(<<"a", "b.txt">>) \cup {NoEntry} }

EmptyTree == [p \in AllPaths |-> NoEntry]

\* The tree of the target branch at clone time, and the tree of the pull
\* request branch a prior run left on origin.
BaseTrees == { [EmptyTree EXCEPT ![<<"y.txt">>] = [mode |-> "100755", blob |-> "b1"],
                                 ![<<"a", "b.txt">>] = [mode |-> "100644", blob |-> "b2"]] }

PriorTrees == { [EmptyTree EXCEPT ![<<"x.txt">>] = [mode |-> "100644", blob |-> "b1"],
                                  ![<<"y.txt">>] = [mode |-> "100755", blob |-> "b1"]] }

\* The messages a caller passes to commit(msg), by the position of the commit
Messages == <<"sync 1", "sync 2", "sync 3", "sync 4">>

RepoA == [user |-> "org", name |-> "target", branch |-> "main"]
RepoB == [user |-> "org", name |-> "other", branch |-> "dev"]

Repos == { RepoA }

\* repo.fullName and repo.uniqueName, as the configuration parser derives them
FullName(r) == <<"github.com/", r.user, "/", r.name>>
UniqueName(r) == <<r.user, "/", r.name, "@", r.branch>>

\* A pull request object: NoPr stands for undefined
NoPr == [number |-> 0, title |-> "", body |-> <<>>, head |-> <<>>, base |-> <<>>]

\* this.lastCommitChanges === undefined
NoChanges == [defined |-> FALSE, map |-> <<>>]

NoResult == [value |-> Undefined]
NoOp == [name |-> "none", input |-> <<>>]

Unset == "unset"
SessionFields == {"workingDir", "gitUrl", "baseBranch", "prBranch", "lastCommitSha",
                  "existingPr", "lastCommitChanges"}

BaseSha == <<"base", 0>>
PriorSha == <<"prior", 0>>
EmptySha == <<"", 0>>
LocalSha(i) == <<"local", i>>
RemoteSha(k) == <<"remote", k>>

(***************************************************************************)
(* Local git plumbing                                                      *)
(***************************************************************************)
IsLocal(sha) == \E i \in 1..Len(localCommits) : localCommits[i].sha = sha

IndexOf(sha) == CHOOSE i \in 1..Len(localCommits) : localCommits[i].sha = sha

HeadTree == IF localCommits = <<>> THEN headTree
            ELSE localCommits[Len(localCommits)].tree

\* git cat-file -p <sha>, the tree header
getTreeId(sha) == localCommits[IndexOf(sha)].tree

\* git cat-file -p <sha>~1, the tree header
getParentTreeId(sha) ==
    IF IndexOf(sha) = 1 THEN headTree ELSE localCommits[IndexOf(sha) - 1].tree

getCommitMessage(sha) == localCommits[IndexOf(sha)].message

\* git diff-tree <a> <b> -r: one line per path whose entry differs, printed
\* ":<mode in a> <mode in b> <blob in a> <blob in b> <status>\t<path>".
\* A line is given as the words it splits into on ' ' once the leading ':'
\* is gone and the tab is a space: a path of two words gives seven words.
DiffStatus(ea, eb) == IF ea = NoEntry THEN "A" ELSE IF eb = NoEntry THEN "D" ELSE "M"

GitDiffTree(a, b) ==
    LET changed == SelectSeq(PathOrder, LAMBDA p : a[p] # b[p])
        Line(p) == <<a[p].mode, b[p].mode, a[p].blob, b[p].blob,
                     DiffStatus(a[p], b[p])>> \o p
    IN  [i \in 1..Len(changed) |-> Line(changed[i])]

\* output.split('\n'): the trimmed output of a command printing nothing is
\* one empty line
SplitLines(lines) == IF lines = <<>> THEN << <<"">> >> ELSE lines

Field(words, i) == IF i <= Len(words) THEN words[i] ELSE Undefined

parseTreeDiffLine(words) ==
    [newMode |-> Field(words, 1), previousMode |-> Field(words, 2),
     newBlob |-> Field(words, 3), previousBlob |-> Field(words, 4),
     change |-> Field(words, 5),
     path |-> IF Len(words) >= 6 THEN <<words[6]>> ELSE <<Undefined>>]

\* for (const line of output.split('\n')) ... diff.push(...)
parseTreeDiff(output) ==
    LET lines == SplitLines(output)
    IN  [i \in 1..Len(lines) |-> parseTreeDiffLine(lines[i])]

getTreeDiff(referenceTree, differenceTree) ==
    parseTreeDiff(GitDiffTree(referenceTree, differenceTree))

\* git log --format=%H --reverse <lastCommitSha>..HEAD, split on '\n'
getCommitsToPush ==
    IF localCommits = <<>> THEN <<EmptySha>>
    ELSE [i \in 1..Len(localCommits) |-> localCommits[i].sha]

(***************************************************************************)
(* The Git Data API, as the publisher uses it                              *)
(***************************************************************************)
\* createTree({ tree, base_tree }): the base tree with every payload entry
\* applied; an entry whose sha is null removes its path.
RECURSIVE ApplyPayload(_, _)
ApplyPayload(base, payload) ==
    IF payload = <<>> THEN base
    ELSE LET e == Head(payload)
             next == IF e.sha = Null
                     THEN [base EXCEPT ![e.path] = NoEntry]
                     ELSE [base EXCEPT ![e.path] = [mode |-> e.mode, blob |-> e.sha]]
         IN  ApplyPayload(next, Tail(payload))

Calls(op) == SelectSeq(apiLog, LAMBDA c : c.op = op)

NumCalls(op) == Len(Calls(op))

(***************************************************************************)
(* createGithubCommit                                                      *)
(***************************************************************************)
\* Faulty variant: the deletion entries are not filtered out.
blobsToCreate_all(treeDiff) == treeDiff

\* treeDiff.filter((e) => e.newMode !== '000000')
blobsToCreate(treeDiff) == SelectSeq(treeDiff, LAMBDA e : e.newMode # "000000")

\* treeDiff.map(...): the payload of createTree
treePayloadEntry(e) ==
    IF e.newMode = "000000"
    THEN [path |-> e.path, mode |-> e.previousMode, type |-> "blob", sha |-> Null]
    ELSE [path |-> e.path, mode |-> e.newMode, type |-> "blob", sha |-> e.newBlob]

treePayload(treeDiff) == [i \in 1..Len(treeDiff) |-> treePayloadEntry(treeDiff[i])]

\* Faulty variant: every remote commit is given the pre-replay base as its parent.
commitParents_base == <<preSha>>

\* parents: [ this.lastCommitSha ]
commitParents == <<lastCommitSha>>

\* Faulty variant: the tree-creation error is re-raised as it came.
wrapTreeError_plain(message) == message

\* catch (error): error.message = `Cannot create a new GitHub Tree: ...`
wrapTreeError(message) == "Cannot create a new GitHub Tree: " \o message

BlobCall(commitSha, e) ==
    [op |-> "createBlob", commit |-> commitSha, blob |-> e.newBlob, ok |-> TRUE]

\* github.git.createTree({ tree, base_tree: parentTreeId }) and its answer
TreeCall(commitSha) ==
    LET parentTreeId == getParentTreeId(commitSha)
        tree == treePayload(getTreeDiff(getTreeId(commitSha), parentTreeId))
    IN  [op |-> "createTree", commit |-> commitSha, tree |-> tree,
         base_tree |-> parentTreeId, result |-> ApplyPayload(parentTreeId, tree),
         ok |-> TRUE]

\* github.git.createCommit({ message, parents, tree }) and its answer
CommitCall(commitSha) ==
    [op |-> "createCommit", commit |-> commitSha,
     message |-> getCommitMessage(commitSha), parents |-> commitParents,
     tree |-> TreeCall(commitSha).result,
     sha |-> RemoteSha(NumCalls("createCommit") + 1), ok |-> TRUE]

\* What one call of createGithubCommit(commitSha) sends and leaves behind.
\* outcome: "ok", or the call that the platform rejects.
createGithubCommit(commitSha, outcome) ==
    IF ~IsLocal(commitSha)
    THEN \* git cat-file -p of no commit: the command fails
         /\ raised' = "shell"
         /\ pc' = "failed"
         /\ UNCHANGED <<apiLog, lastCommitSha, idx>>
    ELSE
    LET treeId == getTreeId(commitSha)
        parentTreeId == getParentTreeId(commitSha)
        commitMessage == getCommitMessage(commitSha)
        treeDiff == getTreeDiff(treeId, parentTreeId)
        blobs == blobsToCreate(treeDiff)
        uploads == [i \in 1..Len(blobs) |-> BlobCall(commitSha, blobs[i])]
        treeCall == TreeCall(commitSha)
        commitCall == CommitCall(commitSha)
        newSha == commitCall.sha  \* request.data.sha
    IN  CASE outcome = "blobFail" ->
                /\ apiLog' = apiLog \o uploads
                /\ raised' = "createBlob failed"
                /\ pc' = "failed"
                /\ UNCHANGED <<lastCommitSha, idx>>
          [] outcome = "treeFail" ->
                /\ apiLog' = apiLog \o uploads \o <<[treeCall EXCEPT !.ok = FALSE]>>
                /\ raised' = wrapTreeError("failed")
                /\ pc' = "failed"
                /\ UNCHANGED <<lastCommitSha, idx>>
          [] outcome = "commitFail" ->
                /\ apiLog' = apiLog \o uploads \o <<treeCall>>
                               \o <<[commitCall EXCEPT !.ok = FALSE]>>
                /\ raised' = "createCommit failed"
                /\ pc' = "failed"
                /\ UNCHANGED <<lastCommitSha, idx>>
          [] OTHER ->
                /\ apiLog' = apiLog \o uploads \o <<treeCall, commitCall>>
                /\ lastCommitSha' = newSha
                /\ idx' = idx + 1
                /\ pc' = IF idx + 1 > Len(commits) THEN "updateRef" ELSE "replay"
                /\ UNCHANGED raised

(***************************************************************************)
(* The session: initRepo, createPrBranch, commit, push                     *)
(***************************************************************************)
\* GITHUB_REPOSITORY, the repository the action runs in, as the pieces of
\* the string: a separator or a dot is a piece of its own
ToolsRepository == <<"org", "/", "tools">>
DotRepository == <<"org", "/", ".", "github">>

Configs == [FORK : {NoFork, "forkowner"}, IS_INSTALLATION_TOKEN : BOOLEAN,
            SKIP_PR : BOOLEAN, OVERWRITE_EXISTING_PR : BOOLEAN,
            GITHUB_REPOSITORY : {ToolsRepository}]

\* The default of the input BRANCH_PREFIX
BRANCH_PREFIX == <<"repo-sync", "/", "SOURCE_REPO_NAME">>

\* GITHUB_REPOSITORY.split('/')[1]
RECURSIVE AfterFirstSlash(_)
AfterFirstSlash(s) ==
    IF s = <<>> THEN <<>>
    ELSE IF Head(s) = "/" THEN Tail(s)
    ELSE AfterFirstSlash(Tail(s))

RECURSIVE UpToSlash(_)
UpToSlash(s) ==
    IF s = <<>> \/ Head(s) = "/" THEN <<>>
    ELSE <<Head(s)>> \o UpToSlash(Tail(s))

SourceRepoName == UpToSlash(AfterFirstSlash(cfg.GITHUB_REPOSITORY))

\* String.prototype.replace(piece, by): the first occurrence only
RECURSIVE ReplaceFirst(_, _, _)
ReplaceFirst(s, piece, by) ==
    IF s = <<>> THEN <<>>
    ELSE IF Head(s) = piece THEN by \o Tail(s)
    ELSE <<Head(s)>> \o ReplaceFirst(Tail(s), piece, by)

\* path.join(a, b): joined by a separator and normalised, i.e. without a
\* doubled separator and without a segment that is a lone dot
RECURSIVE Normalize(_)
Normalize(s) ==
    IF Len(s) < 2 THEN s
    ELSE IF s[1] = "/" /\ s[2] = "/" THEN Normalize(Tail(s))
    ELSE IF s[1] = "/" /\ s[2] = "." /\ (Len(s) = 2 \/ s[3] = "/")
         THEN Normalize(<<"/">> \o SubSeq(s, 4, Len(s)))
    ELSE <<s[1]>> \o Normalize(Tail(s))

PathJoin(a, b) == Normalize(a \o <<"/">> \o b)

\* .replace(/\\/g, '/')
BackslashToSlash(s) == [i \in 1..Len(s) |-> IF s[i] = "\\" THEN "/" ELSE s[i]]

\* .replace(/\/\./g, '/')
RECURSIVE CollapseSlashDot(_)
CollapseSlashDot(s) ==
    IF Len(s) < 2 THEN s
    ELSE IF s[1] = "/" /\ s[2] = "."
         THEN <<"/">> \o CollapseSlashDot(SubSeq(s, 3, Len(s)))
    ELSE <<s[1]>> \o CollapseSlashDot(Tail(s))

\* BRANCH_PREFIX with SOURCE_REPO_NAME replaced by the name part of
\* GITHUB_REPOSITORY
BranchPrefix == ReplaceFirst(BRANCH_PREFIX, "SOURCE_REPO_NAME", SourceRepoName)

\* The name createPrBranch computes before any suffix
BranchName(r) == CollapseSlashDot(BackslashToSlash(PathJoin(BranchPrefix, <<r.branch>>)))

DefaultMessage == "COMMIT_PREFIX synced file(s) with GITHUB_REPOSITORY"

Init ==
    /\ cfg \in Configs
    /\ pc = "constructed"
    /\ repo = Undefined
    /\ lastCommitSha = <<Undefined, 0>>
    /\ prBranch = <<Undefined>>
    /\ baseBranch = <<Undefined>>
    /\ localBranch = <<Undefined>>
    /\ headTree = EmptyTree
    /\ localCommits = <<>>
    /\ commits = <<>>
    /\ idx = 0
    /\ preSha = <<Undefined, 0>>
    /\ apiLog = <<>>
    /\ raised = NoError
    /\ disk = <<>>
    /\ disk0 = <<>>
    /\ rule = Undefined
    /\ copies = 0
    /\ copyError = FALSE
    /\ filtered = {}
    /\ parseJob = NoJob
    /\ parseOut = NoOutput
    /\ workingDir = <<Undefined>>
    /\ gitUrl = <<Undefined>>
    /\ existingPr = NoPr
    /\ lastCommitChanges = NoChanges
    /\ remotePr = NoPr
    /\ lastResult = NoResult
    /\ lastOp = NoOp
    /\ origin = [f \in SessionFields |-> Unset]
    /\ blobUploads = <<>>
    /\ awaited = "none"

\* Faulty variant: the field keeps what it held.
getLastCommitSha_kept(head) == lastCommitSha

\* getLastCommitSha(): this.lastCommitSha = git rev-parse HEAD
getLastCommitSha(head) == head

\* The operation now run and what its environment answered
Ran(name, input) == [name |-> name, input |-> input]

\* path.join(TMP_DIR, repo.uniqueName)
WorkingDirOf(r) == <<"TMP_DIR", "/">> \o UniqueName(r)

\* `https://${ x-access-token: }${ oauth: }${ GITHUB_TOKEN }@${ fullName }.git`
\* (IS_FINE_GRAINED is off)
GitUrlOf(r) ==
    <<"https://">> \o (IF cfg.IS_INSTALLATION_TOKEN THEN <<"x-access-token:">> ELSE <<>>)
        \o <<"GITHUB_TOKEN", "@">> \o FullName(r) \o <<".git">>

\* initRepo(repo): reset, clone, getBaseBranch, getLastCommitSha, fork.
\* It may be called again on the same object for the next repository.
\* tree: the tree of the cloned HEAD; openPr: the open pull request the
\* platform holds for this repository; outcome: whether git clone succeeds.
initRepo(r, tree, openPr, outcome) ==
    /\ pc \in {"constructed", "ready", "done", "failed", "branchFailed", "initFailed"}
    /\ existingPr' = NoPr
    /\ prBranch' = <<Undefined>>
    /\ repo' = r
    /\ workingDir' = WorkingDirOf(r)
    /\ gitUrl' = GitUrlOf(r)
    /\ remotePr' = openPr
    /\ localCommits' = <<>>
    /\ commits' = <<>>
    /\ idx' = 0
    /\ preSha' = <<Undefined, 0>>
    /\ IF outcome = "ok"
       THEN /\ baseBranch' = <<r.branch>>
            /\ localBranch' = <<r.branch>>
            /\ lastCommitSha' = getLastCommitSha(BaseSha)
            /\ headTree' = tree
            /\ apiLog' = IF cfg.FORK # NoFork
                         THEN <<[op |-> "createFork", owner |-> r.user,
                                 repo |-> r.name, ok |-> TRUE]>>
                         ELSE <<>>
            /\ pc' = "ready"
            /\ raised' = NoError
            /\ origin' = [origin EXCEPT !["workingDir"] = r.name, !["gitUrl"] = r.name,
                                        !["baseBranch"] = r.name,
                                        !["lastCommitSha"] = r.name,
                                        !["prBranch"] = Unset, !["existingPr"] = Unset]
       ELSE \* git clone rejects: nothing after it runs
            /\ baseBranch' = <<Undefined>>
            /\ localBranch' = <<Undefined>>
            /\ headTree' = EmptyTree
            /\ apiLog' = <<>>
            /\ pc' = "initFailed"
            /\ raised' = "shell"
            /\ origin' = [origin EXCEPT !["workingDir"] = r.name, !["gitUrl"] = r.name,
                                        !["baseBranch"] = Unset,
                                        !["prBranch"] = Unset, !["existingPr"] = Unset]
            /\ UNCHANGED lastCommitSha
    /\ lastOp' = Ran("initRepo", <<r.name, outcome>>)
    /\ lastResult' = NoResult
    /\ UNCHANGED <<cfg, lastCommitChanges>>
    /\ UNCHANGED <<copyVars, parseVars, uploadVars>>

\* createPrBranch(branchSuffix). existsRemote: origin already has the branch
\* (a prior run pushed it), whose head is PriorSha with tree priorTree.
createPrBranch(branchSuffix, timestamp, existsRemote, priorTree) ==
    /\ pc = "ready"
    /\ prBranch = <<Undefined>>
    /\ localCommits = <<>>
    /\ LET newBranch == BranchName(repo)
           suffixed == IF branchSuffix # Undefined
                       THEN newBranch \o <<"-", branchSuffix>> ELSE newBranch
       IN  IF cfg.OVERWRITE_EXISTING_PR = FALSE
           THEN \* git switch -b "<newBranch>": git switch has no option -b,
                \* the command fails and createPrBranch rejects
                /\ prBranch' = suffixed \o <<"-", timestamp>>
                /\ pc' = "branchFailed"
                /\ raised' = "shell"
                /\ origin' = [origin EXCEPT !["prBranch"] = repo.name]
                /\ UNCHANGED <<localBranch, lastCommitSha, headTree>>
           ELSE /\ prBranch' = newBranch
                /\ origin' = [origin EXCEPT !["prBranch"] = repo.name,
                                            !["lastCommitSha"] = repo.name]
                /\ localBranch' = suffixed
                \* git switch "<newBranch>" || git switch -c "<newBranch>",
                \* then getLastCommitSha()
                /\ IF existsRemote
                   THEN lastCommitSha' = getLastCommitSha(PriorSha) /\ headTree' = priorTree
                   ELSE lastCommitSha' = getLastCommitSha(BaseSha) /\ UNCHANGED headTree
                /\ UNCHANGED <<pc, raised>>
    /\ lastOp' = Ran("createPrBranch", <<branchSuffix, timestamp, existsRemote>>)
    /\ UNCHANGED <<cfg, repo, baseBranch, localCommits, commits, idx, preSha, apiLog>>
    /\ lastResult' = NoResult
    /\ UNCHANGED <<copyVars, parseVars, uploadVars, fieldVars, remotePr>>

\* add/remove of the changed files, then commit(msg): one more local commit
\* whose tree is newTree
commit(msg, newTree) ==
    /\ pc = "ready"
    /\ Len(localCommits) < MaxCommits
    /\ newTree # HeadTree
    /\ localCommits' = Append(localCommits,
                              [sha |-> LocalSha(Len(localCommits) + 1),
                               tree |-> newTree,
                               message |-> IF msg # Undefined THEN msg
                                           ELSE DefaultMessage])
    /\ lastOp' = Ran("commit", <<>>)
    /\ UNCHANGED <<cfg, pc, repo, lastCommitSha, prBranch, baseBranch, localBranch,
                   headTree, commits, idx, preSha, apiLog, raised>>
    /\ lastResult' = NoResult
    /\ UNCHANGED <<copyVars, parseVars, uploadVars, fieldVars, remotePr, origin>>

(***************************************************************************)
(* push and createGithubVerifiedCommits                                    *)
(***************************************************************************)
GitPush(remote, branch, outcome) ==
    /\ apiLog' = Append(apiLog, [op |-> "gitPush", remote |-> remote,
                                 branch |-> branch, lease |-> TRUE,
                                 ok |-> (outcome = "ok")])
    /\ pc' = IF outcome = "ok" THEN "done" ELSE "failed"
    /\ raised' = IF outcome = "ok" THEN NoError ELSE "shell"
    /\ UNCHANGED <<commits, idx>>

\* Faulty variant: the installation token is looked at before the fork.
pushStrategy_tokenFirst ==
    IF cfg.IS_INSTALLATION_TOKEN THEN "verified"
    ELSE IF cfg.FORK # NoFork THEN "fork"
    ELSE "origin"

\* The strategy push() takes: FORK first, then IS_INSTALLATION_TOKEN
pushStrategy ==
    IF cfg.FORK # NoFork THEN "fork"
    ELSE IF cfg.IS_INSTALLATION_TOKEN THEN "verified"
    ELSE "origin"

\* Faulty variant: the catch swallows every error.
createRefRethrows_never(message) == FALSE

\* catch (error): if (error.message !== 'Reference already exists') throw error
createRefRethrows(message) == message # "Reference already exists"

\* Faulty variant: the ref update always targets the pull request branch.
updateRefBranch_pr == prBranch

\* SKIP_PR === false ? this.prBranch : this.baseBranch
updateRefBranch == IF cfg.SKIP_PR = FALSE THEN prBranch ELSE baseBranch

\* createGithubVerifiedCommits, up to its first remote call
StartVerifiedCommits ==
    /\ commits' = getCommitsToPush
    /\ idx' = 1
    /\ pc' = IF cfg.SKIP_PR = FALSE THEN "createRef" ELSE "replay"
    /\ UNCHANGED <<apiLog, raised>>

\* push(): the strategy is chosen by FORK, then IS_INSTALLATION_TOKEN
push(outcome) ==
    /\ pc = "ready"
    /\ preSha' = lastCommitSha
    /\ CASE pushStrategy = "fork" -> GitPush("fork", prBranch, outcome)
         [] pushStrategy = "verified" -> outcome = "ok" /\ StartVerifiedCommits
         [] OTHER -> GitPush("origin", localBranch, outcome)
    /\ lastOp' = Ran("push", <<>>)
    /\ UNCHANGED <<cfg, repo, lastCommitSha, prBranch, baseBranch, localBranch,
                   headTree, localCommits>>
    /\ lastResult' = NoResult
    /\ UNCHANGED <<copyVars, parseVars, uploadVars, fieldVars, remotePr, origin>>

\* github.git.createRef of refs/heads/<prBranch>, and its catch
createRef(outcome) ==
    /\ pc = "createRef"
    /\ apiLog' = Append(apiLog, [op |-> "createRef",
                                 ref |-> <<"refs/heads/">> \o prBranch,
                                 sha |-> lastCommitSha, ok |-> (outcome = "ok"),
                                 result |-> outcome])
    /\ IF outcome # "ok" /\ createRefRethrows(outcome)
       THEN pc' = "failed" /\ raised' = outcome
       ELSE pc' = "replay" /\ UNCHANGED raised
    /\ lastOp' = Ran("push", <<>>)
    /\ UNCHANGED <<cfg, repo, lastCommitSha, prBranch, baseBranch, localBranch,
                   headTree, localCommits, commits, idx, preSha>>
    /\ lastResult' = NoResult
    /\ UNCHANGED <<copyVars, parseVars, uploadVars, fieldVars, remotePr, origin>>

\* one turn of: for (const commit of commits) await createGithubCommit(commit)
replay(outcome) ==
    /\ pc = "replay"
    /\ idx <= Len(commits)
    /\ createGithubCommit(commits[idx], outcome)
    /\ lastOp' = Ran("push", <<>>)
    /\ origin' = IF outcome = "ok" THEN [origin EXCEPT !["lastCommitSha"] = repo.name]
                 ELSE origin
    /\ UNCHANGED <<cfg, repo, prBranch, baseBranch, localBranch, headTree,
                   localCommits, commits, preSha>>
    /\ lastResult' = NoResult
    /\ UNCHANGED <<copyVars, parseVars, uploadVars, fieldVars, remotePr>>

\* github.git.updateRef, force
updateRef(outcome) ==
    /\ pc = "updateRef"
    /\ apiLog' = Append(apiLog,
                        [op |-> "updateRef",
                         ref |-> <<"heads/">> \o updateRefBranch,
                         sha |-> lastCommitSha, force |-> TRUE,
                         ok |-> (outcome = "ok")])
    /\ pc' = IF outcome = "ok" THEN "done" ELSE "failed"
    /\ raised' = IF outcome = "ok" THEN NoError ELSE "updateRef failed"
    /\ lastOp' = Ran("push", <<>>)
    /\ UNCHANGED <<cfg, repo, lastCommitSha, prBranch, baseBranch, localBranch,
                   headTree, localCommits, commits, idx, preSha>>
    /\ lastResult' = NoResult
    /\ UNCHANGED <<copyVars, parseVars, uploadVars, fieldVars, remotePr, origin>>

\* What the caller passes to commit(msg): nothing on every commit of a pass
\* (each then carries the default message), or one message per commit.
MessageInputs ==
    LET n == Len(localCommits) + 1
        own == Messages[IF n <= Len(Messages) THEN n ELSE Len(Messages)]
    IN  IF localCommits = <<>> THEN {Undefined, own}
        ELSE IF localCommits[1].message = DefaultMessage THEN {Undefined}
        ELSE {own}

Next ==
    \/ \E r \in Repos, t \in BaseTrees : initRepo(r, t, NoPr, "ok")
    \/ \E sfx \in {Undefined, "sfx"}, ts \in {"1700000000"},
          ex \in BOOLEAN, t \in PriorTrees : createPrBranch(sfx, ts, ex, t)
    \/ \E t \in LocalTrees, m \in MessageInputs : commit(m, t)
    \/ \E o \in {"ok", "fail"} : push(o)
    \/ \E o \in {"ok", "Reference already exists", "Not Found"} : createRef(o)
    \/ \E o \in {"ok", "blobFail", "treeFail", "commitFail"} : replay(o)
    \/ \E o \in {"ok", "fail"} : updateRef(o)

Spec == Init /\ [][Next]_vars

(***************************************************************************)
(* Properties of the verified-commit publisher                             *)
(***************************************************************************)
\* The remote commits the platform created, oldest first
CreatedCommits == SelectSeq(apiLog, LAMBDA c : c.op = "createCommit" /\ c.ok)

\* The publisher ran in this push
PublisherRan == commits # <<>>

\* The publisher went through every commit of its list
ReplayOver == PublisherRan /\ pc \in {"updateRef", "done"}

ParentTreeOf(k) == IF k = 1 THEN headTree ELSE localCommits[k - 1].tree

PublisherOps == {"createRef", "createBlob", "createTree", "createCommit", "updateRef"}

\* C1: the replay creates one remote commit per local commit, oldest first,
\* each with that commit's message and with one parent: the pre-replay
\* lastCommitSha for the first, the remote commit created before it for the
\* others; once the replay is over there are as many remote commits as local
\* ones and lastCommitSha is the id of the last one created.
C1_ReplayChain ==
    LET cc == CreatedCommits
    IN  /\ Len(cc) <= Len(localCommits)
        /\ \A k \in 1..Len(cc) :
              /\ cc[k].commit = localCommits[k].sha
              /\ cc[k].message = localCommits[k].message
              /\ cc[k].parents = <<IF k = 1 THEN preSha ELSE cc[k - 1].sha>>
              /\ \A j \in 1..Len(cc) : j # k => cc[j].sha # cc[k].sha
        /\ ReplayOver =>
              /\ Len(cc) = Len(localCommits)
              /\ Len(cc) >= 1
              /\ lastCommitSha = cc[Len(cc)].sha

C1_Witness ==
    /\ pc = "done"
    /\ Len(CreatedCommits) = 2
    /\ CreatedCommits[1].message # CreatedCommits[2].message
    /\ CreatedCommits[2].parents = <<CreatedCommits[1].sha>>

\* C2 as claimed: the tree of every remote commit holds the same entries as
\* the tree of the local commit it replays.
C2_TreesMatch ==
    \A k \in 1..Len(CreatedCommits) :
        CreatedCommits[k].tree = localCommits[k].tree

\* C3: with pull requests enabled the first call of the publisher creates
\* refs/heads/<prBranch> at the pre-replay lastCommitSha, before any blob,
\* tree or commit; with them disabled no ref is created.  The ref update is
\* issued at most once, as the last call, after every local commit has its
\* remote commit; it is forced, names prBranch (PRs enabled) or baseBranch
\* (PRs disabled) and carries the final lastCommitSha.  A completed replay
\* has issued it.
C3_RefProtocol ==
    LET pub == SelectSeq(apiLog, LAMBDA c : c.op \in PublisherOps)
        upd == Calls("updateRef")
    IN  /\ (pub # <<>> /\ cfg.SKIP_PR = FALSE) =>
              /\ pub[1].op = "createRef"
              /\ pub[1].ref = <<"refs/heads/">> \o prBranch
              /\ pub[1].sha = preSha
        /\ NumCalls("createRef") <= 1
        /\ cfg.SKIP_PR => NumCalls("createRef") = 0
        /\ Len(upd) <= 1
        /\ Len(upd) = 1 =>
              /\ apiLog[Len(apiLog)].op = "updateRef"
              /\ Len(CreatedCommits) = Len(localCommits)
              /\ upd[1].force
              /\ upd[1].ref = <<"heads/">> \o (IF cfg.SKIP_PR THEN baseBranch ELSE prBranch)
              /\ upd[1].sha = lastCommitSha
              /\ upd[1].sha = CreatedCommits[Len(CreatedCommits)].sha
        /\ (PublisherRan /\ pc = "done") => Len(upd) = 1

C3_Witness ==
    /\ pc = "done"
    /\ PublisherRan
    /\ cfg.SKIP_PR = FALSE
    /\ Len(CreatedCommits) = 2
    /\ prBranch # <<Undefined>>

C3_WitnessSkipPr ==
    /\ pc = "done"
    /\ PublisherRan
    /\ cfg.SKIP_PR
    /\ Len(CreatedCommits) = 2

\* The paths local commit k changes, and those it leaves with an entry
ChangedPaths(k) == { p \in Paths : localCommits[k].tree[p] # ParentTreeOf(k)[p] }

IntroducedPaths(k) == { p \in ChangedPaths(k) : localCommits[k].tree[p] # NoEntry }

\* The local commits whose blob uploads were all issued
UploadedCommits ==
    { k \in 1..Len(localCommits) :
        \E i \in 1..Len(apiLog) :
            apiLog[i].op = "createTree" /\ apiLog[i].commit = localCommits[k].sha }

UploadsOf(k) ==
    SelectSeq(apiLog, LAMBDA c : c.op = "createBlob" /\ c.commit = localCommits[k].sha)

\* C4: for every replayed commit the blobs uploaded are those of the paths
\* the commit adds or modifies, one upload per such path; a path the commit
\* deletes and a path it leaves alone cause no upload, and no upload belongs
\* to anything but a commit being replayed.
C4_BlobUploads ==
    /\ \A k \in UploadedCommits :
          /\ Len(UploadsOf(k)) = Cardinality(IntroducedPaths(k))
          /\ \A b \in {"b1", "b2", NoEntry.blob, Undefined} :
                Cardinality({ i \in 1..Len(UploadsOf(k)) : UploadsOf(k)[i].blob = b })
                  = Cardinality({ p \in IntroducedPaths(k) : localCommits[k].tree[p].blob = b })
    /\ \A i \in 1..Len(apiLog) :
          apiLog[i].op = "createBlob" =>
              \E k \in 1..Len(localCommits) : apiLog[i].commit = localCommits[k].sha

\* The spec's example: the first commit adds x.txt, the second modifies it
\* and deletes y.txt; x.txt is uploaded twice and nothing else is.
C4_Witness ==
    /\ pc = "done"
    /\ Len(CreatedCommits) = 2
    /\ ChangedPaths(1) = {<<"x.txt">>}
    /\ IntroducedPaths(1) = {<<"x.txt">>}
    /\ ChangedPaths(2) = {<<"x.txt">>, <<"y.txt">>}
    /\ IntroducedPaths(2) = {<<"x.txt">>}
    /\ NumCalls("createBlob") = 2

\* C9: a push() takes exactly one strategy: with a fork, one lease-protected
\* push of prBranch to the fork remote and no call of the publisher; else
\* with an installation token, the publisher and no git push; else one
\* lease-protected push to origin and no call of the publisher.  Before
\* push() nothing is published.
C9_OneStrategy ==
    LET pushes == Calls("gitPush")
        pub == SelectSeq(apiLog, LAMBDA c : c.op \in PublisherOps)
    IN  IF pc \in {"constructed", "ready", "branchFailed", "initFailed"}
        THEN pushes = <<>> /\ pub = <<>> /\ ~PublisherRan
        ELSE IF cfg.FORK # NoFork
             THEN /\ Len(pushes) = 1
                  /\ pushes[1].remote = "fork"
                  /\ pushes[1].branch = prBranch
                  /\ pushes[1].lease
                  /\ pub = <<>> /\ ~PublisherRan
        ELSE IF cfg.IS_INSTALLATION_TOKEN
             THEN pushes = <<>> /\ PublisherRan
        ELSE /\ Len(pushes) = 1
             /\ pushes[1].remote = "origin"
             /\ pushes[1].lease
             /\ pub = <<>> /\ ~PublisherRan

C9_Witness ==
    /\ pc = "done"
    /\ cfg.FORK # NoFork
    /\ cfg.IS_INSTALLATION_TOKEN
    /\ Len(localCommits) = 2
    /\ NumCalls("gitPush") = 1

\* What holds of every state once createRef was called
C10_State ==
    LET refs == Calls("createRef")
    IN  refs # <<>> =>
          IF refs[1].result \in {"ok", "Reference already exists"}
          THEN /\ raised # refs[1].result
               /\ pc # "createRef"
               /\ pc = "done" =>
                     /\ Len(CreatedCommits) = Len(localCommits)
                     /\ NumCalls("updateRef") = 1
                     /\ apiLog[Len(apiLog)].sha = lastCommitSha
          ELSE /\ pc = "failed"
               /\ raised = refs[1].result
               /\ apiLog[Len(apiLog)].op = "createRef"
               /\ \A i \in 1..Len(apiLog) :
                     apiLog[i].op \notin {"createBlob", "createTree", "createCommit",
                                          "updateRef"}
               /\ lastCommitSha = preSha

\* What the createRef step does to the session
C10_Step ==
    pc = "createRef" =>
        /\ Len(apiLog') = Len(apiLog) + 1
        /\ apiLog'[Len(apiLog')].op = "createRef"
        /\ UNCHANGED <<cfg, repo, lastCommitSha, prBranch, baseBranch, localBranch,
                       headTree, localCommits, commits, idx, preSha>>
        /\ IF apiLog'[Len(apiLog')].result \in {"ok", "Reference already exists"}
           THEN pc' = "replay" /\ raised' = NoError
           ELSE pc' = "failed" /\ raised' = apiLog'[Len(apiLog')].result

\* C10: a createRef rejected with "Reference already exists" raises nothing
\* and leaves the session in the state a successful createRef leaves it in
\* (ready to replay, nothing else changed), and a replay that then completes
\* has created every commit and updated the ref; a createRef rejected with
\* another error is raised, it is the last remote call, no blob, tree or
\* commit is created, no ref is updated and lastCommitSha is what it was.
C10_CreateRefErrors == []C10_State /\ [][C10_Step]_vars

C10_WitnessExists ==
    /\ pc = "done"
    /\ Calls("createRef") # <<>>
    /\ Calls("createRef")[1].result = "Reference already exists"
    /\ Len(CreatedCommits) = 2

C10_WitnessFatal ==
    /\ pc = "failed"
    /\ Calls("createRef") # <<>>
    /\ Calls("createRef")[1].result = "Not Found"
    /\ Len(localCommits) = 2

\* The createTree calls the platform rejected, by position in the log
FailedTrees == { i \in 1..Len(apiLog) : apiLog[i].op = "createTree" /\ ~apiLog[i].ok }

\* C11: when the platform rejects the createTree of a local commit, push()
\* rejects with the platform's message behind "Cannot create a new GitHub
\* Tree: ", the rejected call is the last remote call of the push (no commit
\* for that local commit or a later one, no ref update), and lastCommitSha is
\* the last remote commit created before it, or the pre-replay base.
C11_TreeFailureFatal ==
    \A i \in FailedTrees :
        /\ i = Len(apiLog)
        /\ pc = "failed"
        /\ raised = "Cannot create a new GitHub Tree: failed"
        /\ \A j \in 1..Len(apiLog) :
              apiLog[j].op = "createCommit" =>
                  /\ apiLog[j].ok
                  /\ IndexOf(apiLog[j].commit) < IndexOf(apiLog[i].commit)
        /\ Len(CreatedCommits) = IndexOf(apiLog[i].commit) - 1
        /\ lastCommitSha = IF CreatedCommits = <<>> THEN preSha
                           ELSE CreatedCommits[Len(CreatedCommits)].sha
        /\ NumCalls("updateRef") = 0

C11_Witness ==
    /\ FailedTrees # {}
    /\ Len(CreatedCommits) = 1
    /\ Len(localCommits) = 2
    /\ lastCommitSha = CreatedCommits[1].sha

(***************************************************************************)
(* The file materializer: copy(src, dest, isDirectory, file)               *)
(*                                                                         *)
(* A file path is the sequence of its '/'-separated segments.  src is a    *)
(* directory of the source repository, dest a directory inside the working *)
(* clone (TMP_DIR/<repo>/<file.dest>).                                     *)
(***************************************************************************)
SrcRoot == <<"src">>
DestRoot == <<"tmp">>

\* The files a source and a destination directory can hold, relative to the
\* directory, in the order a recursive listing gives them
SrcRel == << <<"a.txt">>, <<"sub", "c.txt">> >>
DestRel == << <<".git", "config">>, <<"a.txt">>, <<"b.txt">>, <<"sub", "c.txt">>,
              <<"tmp", "b.txt">> >>

Range(seq) == { seq[i] : i \in 1..Len(seq) }

SrcFiles == { SrcRoot \o r : r \in Range(SrcRel) }
DestFiles == { DestRoot \o r : r \in Range(DestRel) }
Universe == SrcFiles \cup DestFiles

Absent == "absent"
SourceText == "S"
OldText == "D"

\* nunjucks.render(path, context) of a file holding text
Render(text) == IF text = SourceText THEN "R(S)" ELSE "R(D)"

IsPrefix(p, q) == Len(p) <= Len(q) /\ SubSeq(q, 1, Len(p)) = p

Front(p) == SubSeq(p, 1, Len(p) - 1)

IsFile(d, p) == p \in Universe /\ d[p] # Absent

IsDir(d, p) ==
    \/ p \in {SrcRoot, DestRoot}
    \/ \E f \in Universe : d[f] # Absent /\ IsPrefix(p, f) /\ p # f

\* A pattern is a regular expression, given by the segments it matches and
\* by whether it is anchored at the end of the string: /\.txt$/, /a\.txt/,
\* /src/
PatTxt == [segs |-> {"a.txt", "b.txt", "c.txt"}, atEnd |-> TRUE]
PatA == [segs |-> {"a.txt"}, atEnd |-> FALSE]
PatSrc == [segs |-> {"src"}, atEnd |-> FALSE]

\* srcFile.match(pattern)
Matches(srcFile, pattern) ==
    IF pattern.atEnd
    THEN /\ ~srcFile.slash
         /\ srcFile.p # <<>>
         /\ srcFile.p[Len(srcFile.p)] \in pattern.segs
    ELSE \E i \in 1..Len(srcFile.p) : srcFile.p[i] \in pattern.segs

\* A path string: its segments, and whether it ends with '/'
Str(p, slash) == [p |-> p, slash |-> slash]

NoDest == Str(<<Undefined>>, FALSE)

\* filterFunc(srcFile, destFile) of copy, on disk d under file rule f
filterFunc(srcFile, destFile, f, d) ==
    LET replaceSays ==
            IF f.replace = FALSE
            THEN IF destFile = NoDest THEN "include"          \* lstatSync throws
                 ELSE IF IsDir(d, destFile.p) THEN "include"  \* directories are always copied
                 ELSE IF ~IsFile(d, destFile.p) THEN "include" \* lstatSync throws
                 ELSE "skip"
            ELSE "next"
        filePath == IF srcFile.slash THEN srcFile
                    ELSE Str(Front(srcFile.p), TRUE)
        excluded == /\ f.excludeDefined
                    /\ (filePath \in f.exclude \/ srcFile \in f.exclude)
        patternExcluded ==
            \E i \in 1..Len(f.excludeFilePatterns) :
                Matches(srcFile, f.excludeFilePatterns[i])
        patternMissed ==
            /\ Len(f.includeFilePatterns) > 0
            /\ ~\E i \in 1..Len(f.includeFilePatterns) :
                   Matches(srcFile, f.includeFilePatterns[i])
    IN  IF replaceSays = "include" THEN TRUE
        ELSE IF replaceSays = "skip" THEN FALSE
        ELSE IF excluded THEN FALSE
        ELSE IF patternExcluded THEN FALSE
        ELSE IF patternMissed THEN FALSE
        ELSE TRUE

\* walk(dir): the files under dir, each as path.join(dir, ...)
walk(d, dir) ==
    LET rels == IF dir = SrcRoot THEN SrcRel ELSE IF dir = DestRoot THEN DestRel ELSE <<>>
        full == [i \in 1..Len(rels) |-> dir \o rels[i]]
    IN  SelectSeq(full, LAMBDA f : d[f] # Absent)

\* The source and the destination a rule is applied to
SrcOf(f) == IF f.isDirectory THEN SrcRoot ELSE SrcRoot \o <<"a.txt">>
DestOf(f) == IF f.isDirectory THEN DestRoot ELSE DestRoot \o <<"a.txt">>

WriteFile(d, p, text) == IF p \in Universe THEN [d EXCEPT ![p] = text] ELSE d

\* fs.remove(p): the file p, or everything under the directory p
RemovePath(d, p) == [q \in Universe |-> IF IsPrefix(p, q) THEN Absent ELSE d[q]]

\* fs.copy(src, dest, { filter }): the filter is asked for src itself, then
\* for every entry of every directory it let through; a file that is let
\* through overwrites its destination.
CopiedBy(d, f, rel) ==
    IF f.isDirectory
    THEN /\ filterFunc(Str(SrcRoot, TRUE), Str(DestRoot, TRUE), f, d)
         /\ \A k \in 1..Len(rel) :
               filterFunc(Str(SrcRoot \o SubSeq(rel, 1, k), FALSE),
                          Str(DestRoot \o SubSeq(rel, 1, k), FALSE), f, d)
    ELSE /\ rel = <<"a.txt">>
         /\ filterFunc(Str(SrcOf(f), FALSE), Str(DestOf(f), FALSE), f, d)

fsCopy(d, f) ==
    [q \in Universe |->
        IF \E r \in Range(SrcRel) :
              q = DestRoot \o r /\ d[SrcRoot \o r] # Absent /\ CopiedBy(d, f, r)
        THEN d[SrcRoot \o (CHOOSE r \in Range(SrcRel) : q = DestRoot \o r)]
        ELSE d[q]]

\* The template branch of a directory rule: every listed file that passes
\* the filter is rendered from path.join(src, srcFile) to
\* path.join(dest, srcFile); rendering a file that does not exist throws.
RECURSIVE renderAll(_, _, _)
renderAll(list, d, f) ==
    IF list = <<>> THEN [disk |-> d, threw |-> FALSE]
    ELSE LET srcFile == Head(list)
             srcPath == SrcOf(f) \o srcFile
             destPath == DestOf(f) \o srcFile
         IN  IF ~filterFunc(Str(srcFile, FALSE), NoDest, f, d)
             THEN renderAll(Tail(list), d, f)
             ELSE IF ~IsFile(d, srcPath) THEN [disk |-> d, threw |-> TRUE]
             ELSE renderAll(Tail(list), WriteFile(d, destPath, Render(d[srcPath])), f)

\* destFile.startsWith('.git')
startsWithGit(destFile) == destFile[1] \in {".git", ".github", ".gitignore"}

\* The loop over destFileList of the orphan deletion
RECURSIVE deleteOrphans(_, _, _, _)
deleteOrphans(destFileList, srcFileList, d, f) ==
    IF destFileList = <<>> THEN d
    ELSE LET destFile == Head(destFileList)
             filePath == DestOf(f) \o destFile
         IN  IF startsWithGit(destFile) THEN d
             ELSE IF destFile \in Range(srcFileList)
             THEN deleteOrphans(Tail(destFileList), srcFileList, d, f)
             ELSE IF f.excludeDefined /\ Str(SrcOf(f) \o destFile, FALSE) \in f.exclude
             THEN deleteOrphans(Tail(destFileList), srcFileList, d, f)
             ELSE deleteOrphans(Tail(destFileList), srcFileList,
                                RemovePath(d, filePath), f)

\* copy(src, dest, isDirectory, file): the disk it leaves, and whether it threw
copyResult(d, f) ==
    LET written ==
            IF f.template
            THEN IF f.isDirectory THEN renderAll(walk(d, SrcOf(f)), d, f)
                 ELSE [disk |-> WriteFile(d, DestOf(f), Render(d[SrcOf(f)])),
                       threw |-> FALSE]
            ELSE [disk |-> fsCopy(d, f), threw |-> FALSE]
        deleteOrphaned == f.isDirectory /\ f.deleteOrphaned
    IN  IF written.threw \/ ~deleteOrphaned THEN written
        ELSE [disk |-> deleteOrphans(walk(written.disk, DestOf(f)),
                                     walk(written.disk, SrcOf(f)), written.disk, f),
              threw |-> FALSE]

\* The calls of filterFunc one copy makes, each with its answer
Asked(srcFile, destFile, d, f) ==
    [src |-> srcFile, dest |-> destFile,
     result |-> filterFunc(srcFile, destFile, f, d)]

filterCalls(d, f) ==
    IF f.template
    THEN IF f.isDirectory
         THEN LET list == walk(d, SrcOf(f))
                  Throws(j) == /\ filterFunc(Str(list[j], FALSE), NoDest, f, d)
                               /\ ~IsFile(d, SrcOf(f) \o list[j])
              IN  { Asked(Str(list[i], FALSE), NoDest, d, f) :
                      i \in { i \in 1..Len(list) : \A j \in 1..(i - 1) : ~Throws(j) } }
         ELSE {}
    ELSE IF f.isDirectory
    THEN LET Pass(r, k) ==
                 /\ filterFunc(Str(SrcRoot, TRUE), Str(DestRoot, TRUE), f, d)
                 /\ \A j \in 1..k :
                       filterFunc(Str(SrcRoot \o SubSeq(r, 1, j), FALSE),
                                  Str(DestRoot \o SubSeq(r, 1, j), FALSE), f, d)
         IN  { Asked(Str(SrcRoot, TRUE), Str(DestRoot, TRUE), d, f) }
             \cup UNION { { Asked(Str(SrcRoot \o SubSeq(r, 1, k), FALSE),
                                 Str(DestRoot \o SubSeq(r, 1, k), FALSE), d, f) :
                               k \in { k \in 1..Len(r) : Pass(r, k - 1) } } :
                           r \in { r \in Range(SrcRel) : d[SrcRoot \o r] # Absent } }
    ELSE { Asked(Str(SrcOf(f), FALSE), Str(DestOf(f), FALSE), d, f) }

copy ==
    /\ copies < MaxCopies
    /\ ~copyError
    /\ disk' = copyResult(disk, rule).disk
    /\ copyError' = copyResult(disk, rule).threw
    /\ filtered' = filterCalls(disk, rule)
    /\ copies' = copies + 1
    /\ UNCHANGED <<disk0, rule>>
    /\ UNCHANGED <<sessionVars, parseVars, fieldVars, pullVars, ghostVars, uploadVars>>

ExcludeLists ==
    { {},
      {Str(SrcRoot \o <<"a.txt">>, FALSE)},
      {Str(SrcRoot \o <<"sub">>, TRUE)},
      {Str(SrcRoot \o <<"b.txt">>, FALSE)} }

Rules ==
    [isDirectory : BOOLEAN, replace : BOOLEAN, template : BOOLEAN,
     deleteOrphaned : BOOLEAN, excludeDefined : BOOLEAN, exclude : ExcludeLists,
     excludeFilePatterns : {<<>>, <<PatA>>},
     includeFilePatterns : {<<>>, <<PatTxt>>, <<PatSrc>>}]

Disks ==
    { d \in [Universe -> {Absent, SourceText, OldText}] :
        /\ \A p \in SrcFiles : d[p] \in {Absent, SourceText}
        /\ \A p \in DestFiles : d[p] \in {Absent, OldText} }

InitCopy ==
    /\ rule \in { f \in Rules : f.excludeDefined \/ f.exclude = {} }
    /\ disk \in { d \in Disks : rule.isDirectory \/ d[SrcOf(rule)] # Absent }
    /\ disk0 = disk
    /\ copies = 0
    /\ copyError = FALSE
    /\ filtered = {}
    /\ parseJob = NoJob
    /\ parseOut = NoOutput
    /\ workingDir = <<Undefined>>
    /\ gitUrl = <<Undefined>>
    /\ existingPr = NoPr
    /\ lastCommitChanges = NoChanges
    /\ remotePr = NoPr
    /\ lastResult = NoResult
    /\ lastOp = NoOp
    /\ origin = [f \in SessionFields |-> Unset]
    /\ blobUploads = <<>>
    /\ awaited = "none"
    /\ cfg = [FORK |-> NoFork, IS_INSTALLATION_TOKEN |-> FALSE, SKIP_PR |-> FALSE,
              OVERWRITE_EXISTING_PR |-> TRUE]
    /\ pc = "materialize"
    /\ repo = Undefined
    /\ lastCommitSha = <<Undefined, 0>>
    /\ prBranch = <<Undefined>>
    /\ baseBranch = <<Undefined>>
    /\ localBranch = <<Undefined>>
    /\ headTree = EmptyTree
    /\ localCommits = <<>>
    /\ commits = <<>>
    /\ idx = 0
    /\ preSha = <<Undefined, 0>>
    /\ apiLog = <<>>
    /\ raised = NoError

NextCopy == copy

SpecCopy == InitCopy /\ [][NextCopy]_vars

(***************************************************************************)
(* Properties of the file materializer                                     *)
(***************************************************************************)
Copied == pc = "materialize" /\ copies >= 1

\* The destination files that were there before the first copy
PreExisting == { p \in DestFiles : disk0[p] # Absent }

\* The relative paths the source listing holds
SourceListing == { r \in Range(SrcRel) : disk0[SrcRoot \o r] # Absent }

\* The destination files with no file of the same relative path in the source
Orphans == { DestRoot \o r : r \in Range(DestRel) \ SourceListing } \cap PreExisting

UnderGit(p) == IsPrefix(DestRoot \o <<".git">>, p)

\* An orphan the rule's exclude list names (path.join(src, <relative path>))
ExcludedOrphan(p) ==
    /\ rule.excludeDefined
    /\ Str(SrcRoot \o SubSeq(p, Len(DestRoot) + 1, Len(p)), FALSE) \in rule.exclude

\* C5 as claimed: under replace=false a copy (one or two of them) leaves
\* every file the destination already held with the content it had; only an
\* orphan a directory rule with deleteOrphaned removes may go.
C5_NoClobber ==
    (Copied /\ rule.replace = FALSE) =>
        \A p \in PreExisting :
            \/ disk[p] = disk0[p]
            \/ rule.isDirectory /\ rule.deleteOrphaned /\ disk[p] = Absent

\* The decision procedure the claim gives, on the disk the copy started from
ClaimedInclude(srcFile, destFile) ==
    LET skip1 == rule.replace = FALSE /\ IsFile(disk0, destFile.p)
        skip2 == /\ rule.excludeDefined
                 /\ \/ srcFile \in rule.exclude
                    \/ Str(Front(srcFile.p), TRUE) \in rule.exclude
        skip3 == \E i \in 1..Len(rule.excludeFilePatterns) :
                    Matches(srcFile, rule.excludeFilePatterns[i])
        skip4 == /\ Len(rule.includeFilePatterns) > 0
                 /\ ~\E i \in 1..Len(rule.includeFilePatterns) :
                        Matches(srcFile, rule.includeFilePatterns[i])
    IN  ~(skip1 \/ skip2 \/ skip3 \/ skip4)

\* C6 as claimed: every answer the filter gave during the copy is "include"
\* iff none of the four skip conditions holds (existing destination file
\* under replace=false, exclude list, excludeFilePatterns,
\* includeFilePatterns).
C6_FilterDecision ==
    (Copied /\ copies = 1) =>
        \A c \in filtered : c.result = ClaimedInclude(c.src, c.dest)

\* C7 as claimed: after the copy of a directory rule with deleteOrphaned
\* every orphan outside the metadata directory is gone unless the exclude
\* list names it, an excluded orphan is kept and every file whose relative
\* path the source holds is still there; without deleteOrphaned, or for a
\* single-file rule, every file the destination held is still there.
C7_OrphanDeletion ==
    (Copied /\ copies = 1 /\ ~copyError) =>
        IF rule.isDirectory /\ rule.deleteOrphaned
        THEN /\ \A p \in Orphans :
                   IF ExcludedOrphan(p) THEN disk[p] # Absent
                   ELSE UnderGit(p) \/ disk[p] = Absent
             /\ \A p \in PreExisting \ Orphans : disk[p] # Absent
        ELSE \A p \in PreExisting : disk[p] # Absent

\* C8 as claimed: when the destination holds files under .git and other
\* orphans, the orphan deletion removes no file under .git and no file
\* outside the destination, and removes every other orphan the exclude list
\* does not name.
C8_MetadataSafe ==
    ( /\ Copied /\ copies = 1 /\ ~copyError
      /\ rule.isDirectory /\ rule.deleteOrphaned
      /\ \E p \in PreExisting : UnderGit(p)
      /\ \E p \in Orphans : ~UnderGit(p) ) =>
        /\ \A p \in PreExisting : UnderGit(p) => disk[p] = disk0[p]
        /\ \A p \in SrcFiles : disk[p] = disk0[p]
        /\ \A p \in Orphans : (~UnderGit(p) /\ ~ExcludedOrphan(p)) => disk[p] = Absent

(***************************************************************************)
(* The text parsers                                                        *)
(*                                                                         *)
(* A text is the sequence of its characters.                               *)
(***************************************************************************)
MaxSegments == 2
MaxLines == 2

DiffGitMark == <<"d", "i", "f", "f", " ", "-", "-", "g", "i", "t">>
PlusMark == <<"+", "+", "+">>
MinusMark == <<"-", "-", "-">>
DevNull == <<"/", "d", "e", "v", "/", "n", "u", "l", "l">>
LF == <<"\n">>

\* The files of a diff: the name, and the name as git prints it between
\* quotes when it holds a byte git escapes (core.quotePath)
PlainFile == [name |-> <<"x">>, quoted |-> FALSE, printed |-> <<"x">>]
NestedFile == [name |-> <<"d", "/", "y">>, quoted |-> FALSE, printed |-> <<"d", "/", "y">>]
SpaceFile == [name |-> <<"a", " ", "b">>, quoted |-> FALSE, printed |-> <<"a", " ", "b">>]
QuotedFile == [name |-> <<"i-umlaut">>, quoted |-> TRUE,
               printed |-> <<"\\", "3", "0", "3", "\\", "2", "5", "7">>]
DiffFiles == {PlainFile, NestedFile, SpaceFile, QuotedFile}

SegmentKinds == {"modified", "added", "deleted", "binary", "addedEmpty"}

\* git diff: the name of a file in a header line
HeaderName(side, file) ==
    IF file.quoted THEN <<"\"">> \o side \o file.printed \o <<"\"">>
    ELSE side \o file.name

\* git diff: a "--- " or "+++ " line; a name holding a space is followed by a tab
FileLine(mark, side, file) ==
    mark \o <<" ">> \o HeaderName(side, file)
         \o (IF ~file.quoted /\ " " \in Range(file.name) THEN <<"\t">> ELSE <<>>)

\* git diff: the lines of the segment of one file
SegmentLines(kind, file) ==
    LET head == DiffGitMark \o <<" ">> \o HeaderName(<<"a", "/">>, file)
                            \o <<" ">> \o HeaderName(<<"b", "/">>, file)
        index == <<"i", "n", "d", "e", "x">>
        new == <<"n", "e", "w">>
        deleted == <<"d", "e", "l", "e", "t", "e", "d">>
        binary == <<"B", "i", "n", "a", "r", "y">>
        hunk == <<"@", "@">>
        old == MinusMark \o <<" ">> \o HeaderName(<<"a", "/">>, file)
    IN  CASE kind = "modified" ->
               <<head, index, FileLine(MinusMark, <<"a", "/">>, file),
                 FileLine(PlusMark, <<"b", "/">>, file), hunk, <<"-", "o">>, <<"+", "n">>>>
          [] kind = "added" ->
               <<head, new, index, MinusMark \o <<" ">> \o DevNull,
                 FileLine(PlusMark, <<"b", "/">>, file), hunk, <<"+", "n">>>>
          [] kind = "deleted" ->
               <<head, deleted, index, FileLine(MinusMark, <<"a", "/">>, file),
                 PlusMark \o <<" ">> \o DevNull, hunk, <<"-", "o">>>>
          [] kind = "binary" -> <<head, index, binary>>
          [] OTHER -> <<head, new, index>>

RECURSIVE JoinWith(_, _)
JoinWith(pieces, sep) ==
    IF pieces = <<>> THEN <<>>
    ELSE IF Len(pieces) = 1 THEN pieces[1]
    ELSE pieces[1] \o sep \o JoinWith(Tail(pieces), sep)

\* git diff: the output for the segments, every line ended by a line feed
RECURSIVE GitDiff(_)
GitDiff(segs) ==
    IF segs = <<>> THEN <<>>
    ELSE JoinWith(SegmentLines(segs[1].kind, segs[1].file), LF) \o LF
             \o GitDiff(Tail(segs))

\* string.indexOf(sub), from 1; 0 when sub does not occur
IndexOfSub(str, sub) ==
    LET at == { i \in 1..(Len(str) - Len(sub) + 1) : SubSeq(str, i, i + Len(sub) - 1) = sub }
    IN  IF at = {} THEN 0 ELSE CHOOSE i \in at : \A j \in at : i <= j

\* string.split(separator)
RECURSIVE SplitOn(_, _)
SplitOn(str, sep) ==
    LET i == IndexOfSub(str, sep)
    IN  IF i = 0 THEN <<str>>
        ELSE <<SubSeq(str, 1, i - 1)>> \o SplitOn(SubSeq(str, i + Len(sep), Len(str)), sep)

WhiteSpace == {" ", "\n", "\t", "\r"}

\* string.trim()
Trim(str) ==
    LET ink == { i \in 1..Len(str) : str[i] \notin WhiteSpace }
    IN  IF ink = {} THEN <<>>
        ELSE SubSeq(str, CHOOSE i \in ink : \A j \in ink : i <= j,
                         CHOOSE i \in ink : \A j \in ink : j <= i)

\* string.slice(n)
Slice(str, n) == SubSeq(str, n + 1, Len(str))

\* { ...resultDict, [key]: value }: an object is the sequence of its
\* properties in insertion order
SetKey(dict, key, value) ==
    IF \E i \in 1..Len(dict) : dict[i].key = key
    THEN [i \in 1..Len(dict) |-> IF dict[i].key = key
                                 THEN [key |-> key, value |-> value] ELSE dict[i]]
    ELSE Append(dict, [key |-> key, value |-> value])

\* The reducer of parseGitDiffOutput, on one piece of the split text
parseFileDiff(resultDict, fileDiff) ==
    LET lines == SplitOn(fileDiff, LF)
        hits == { i \in 1..Len(lines) : IsPrefix(PlusMark, lines[i]) }
    IN  IF hits = {} THEN resultDict   \* ignore binary files
        ELSE LET lastHeaderLineIndex == CHOOSE i \in hits : \A j \in hits : i <= j
                 plainDiff ==
                     Trim(JoinWith(SubSeq(lines, lastHeaderLineIndex + 1, Len(lines)), LF))
                 header == lines[lastHeaderLineIndex]
                 filePath ==
                     IF IsPrefix(PlusMark \o <<" ", "b", "/">>, header)
                     THEN Slice(header, 6)
                     ELSE IF lastHeaderLineIndex = 1 THEN <<"TypeError">>
                     ELSE Slice(lines[lastHeaderLineIndex - 1], 6)
             IN  SetKey(resultDict, filePath, plainDiff)

RECURSIVE reduceFileDiffs(_, _)
reduceFileDiffs(resultDict, pieces) ==
    IF pieces = <<>> THEN resultDict
    ELSE reduceFileDiffs(parseFileDiff(resultDict, Head(pieces)), Tail(pieces))

\* parseGitDiffOutput(string)
parseGitDiffOutput(string) ==
    reduceFileDiffs(<<>>, Tail(SplitOn(LF \o string, LF \o DiffGitMark)))

\* The lines git diff-tree can print: the words of each
ExampleLine == <<"100644", "100644", "abc123", "def456", "M", "foo/bar.txt">>
SpaceLine == <<"100644", "000000", "b2", "0000000", "D", "a", "b.txt">>
AddLine == <<"000000", "100755", "0000000", "b1", "A", "y.txt">>
TreeLines == {ExampleLine, SpaceLine, AddLine}

RECURSIVE SeqsUpTo(_, _)
SeqsUpTo(S, n) ==
    IF n = 0 THEN {<<>>}
    ELSE SeqsUpTo(S, n - 1) \cup
         { Append(q, x) : q \in { q \in SeqsUpTo(S, n - 1) : Len(q) = n - 1 }, x \in S }

DiffJobs ==
    { [fn |-> "parseGitDiffOutput", segs |-> segs, trimmed |-> t] :
        segs \in { q \in SeqsUpTo([kind : SegmentKinds, file : DiffFiles], MaxSegments) :
                     \A i, j \in 1..Len(q) : i # j => q[i].file # q[j].file },
        t \in BOOLEAN }

TreeJobs ==
    { [fn |-> "getTreeDiff", lines |-> l] : l \in SeqsUpTo(TreeLines, MaxLines) }

InitParse ==
    /\ parseJob \in DiffJobs \cup TreeJobs
    /\ parseOut = NoOutput
    /\ workingDir = <<Undefined>>
    /\ gitUrl = <<Undefined>>
    /\ existingPr = NoPr
    /\ lastCommitChanges = NoChanges
    /\ remotePr = NoPr
    /\ lastResult = NoResult
    /\ lastOp = NoOp
    /\ origin = [f \in SessionFields |-> Unset]
    /\ blobUploads = <<>>
    /\ awaited = "none"
    /\ rule = Undefined
    /\ disk = <<>>
    /\ disk0 = <<>>
    /\ copies = 0
    /\ copyError = FALSE
    /\ filtered = {}
    /\ cfg = [FORK |-> NoFork, IS_INSTALLATION_TOKEN |-> FALSE, SKIP_PR |-> FALSE,
              OVERWRITE_EXISTING_PR |-> TRUE]
    /\ pc = "parse"
    /\ repo = Undefined
    /\ lastCommitSha = <<Undefined, 0>>
    /\ prBranch = <<Undefined>>
    /\ baseBranch = <<Undefined>>
    /\ localBranch = <<Undefined>>
    /\ headTree = EmptyTree
    /\ localCommits = <<>>
    /\ commits = <<>>
    /\ idx = 0
    /\ preSha = <<Undefined, 0>>
    /\ apiLog = <<>>
    /\ raised = NoError

\* this.parseGitDiffOutput(output), on the output of git diff as execCmd
\* (trimmed) or the compare call (as sent) hands it over
callParseGitDiffOutput ==
    /\ parseJob.fn = "parseGitDiffOutput"
    /\ ~parseOut.done
    /\ LET output == GitDiff(parseJob.segs)
           string == IF parseJob.trimmed THEN Trim(output) ELSE output
       IN  parseOut' = [done |-> TRUE, result |-> parseGitDiffOutput(string)]
    /\ UNCHANGED parseJob
    /\ UNCHANGED <<sessionVars, copyVars, fieldVars, pullVars, ghostVars, uploadVars>>

\* the parsing loop of getTreeDiff
callParseTreeDiff ==
    /\ parseJob.fn = "getTreeDiff"
    /\ ~parseOut.done
    /\ parseOut' = [done |-> TRUE, result |-> parseTreeDiff(parseJob.lines)]
    /\ UNCHANGED parseJob
    /\ UNCHANGED <<sessionVars, copyVars, fieldVars, pullVars, ghostVars, uploadVars>>

NextParse == callParseGitDiffOutput \/ callParseTreeDiff

SpecParse == InitParse /\ [][NextParse]_vars

(***************************************************************************)
(* Properties of the parsers                                               *)
(***************************************************************************)
\* The segments of text files, and what is left of each after its "+++" line
TextSegments(segs) == SelectSeq(segs, LAMBDA g : g.kind \in {"modified", "added", "deleted", "addedEmpty"})

BodyOf(kind) ==
    CASE kind = "modified" -> <<"@", "@", "\n", "-", "o", "\n", "+", "n">>
      [] kind = "added" -> <<"@", "@", "\n", "+", "n">>
      [] kind = "deleted" -> <<"@", "@", "\n", "-", "o">>
      [] OTHER -> <<>>

\* C14 as claimed: the mapping parseGitDiffOutput returns has one key per
\* text-file segment of the diff, the path of the file, with the segment's
\* text after its "+++" line, trimmed, as value, and no key for a binary
\* file.
C14_ParseUnifiedDiff ==
    (parseJob.fn = "parseGitDiffOutput" /\ parseOut.done) =>
        LET texts == TextSegments(parseJob.segs)
        IN  /\ Len(parseOut.result) = Len(texts)
            /\ \A i \in 1..Len(texts) :
                  \E j \in 1..Len(parseOut.result) :
                      /\ parseOut.result[j].key = texts[i].file.name
                      /\ parseOut.result[j].value = BodyOf(texts[i].kind)
            /\ \A i \in 1..Len(parseJob.segs) :
                  parseJob.segs[i].kind = "binary" =>
                      \A j \in 1..Len(parseOut.result) :
                          parseOut.result[j].key # parseJob.segs[i].file.name

\* C15 as claimed: the parsing loop of getTreeDiff gives one entry per
\* non-empty line and none for an empty one, the entry of
\* ":100644 100644 abc123 def456 M<tab>foo/bar.txt" is the one the
\* specification gives, and the path of an entry is the whole text after
\* the tab.
C15_ParseTreeDiff ==
    (parseJob.fn = "getTreeDiff" /\ parseOut.done) =>
        /\ Len(parseOut.result) = Len(parseJob.lines)
        /\ \A i \in 1..Len(parseJob.lines) :
              /\ i <= Len(parseOut.result)
              /\ parseOut.result[i].path = SubSeq(parseJob.lines[i], 6, Len(parseJob.lines[i]))
              /\ parseJob.lines[i] = ExampleLine =>
                    parseOut.result[i] =
                        [previousMode |-> "100644", newMode |-> "100644",
                         previousBlob |-> "abc123", newBlob |-> "def456",
                         change |-> "M", path |-> <<"foo/bar.txt">>]

(***************************************************************************)
(* The session's staging, diff and pull request operations                 *)
(***************************************************************************)
\* The operations below are called between initRepo and the end of a pass
Active == pc \in {"ready", "done"}

\* A rejected promise ends the pass
Throw(message) == pc' = "failed" /\ raised' = message

\* What none of the operations below touches
QueryFrame ==
    /\ UNCHANGED <<cfg, repo, lastCommitSha, prBranch, baseBranch, localBranch,
                   headTree, localCommits, commits, idx, preSha>>
    /\ UNCHANGED <<copyVars, parseVars, uploadVars, workingDir, gitUrl>>

\* add(file): git add -f "<file>". What it stages reaches the model as the
\* tree of the next commit.
add(file, outcome) ==
    /\ Active
    /\ IF outcome = "ok" THEN UNCHANGED <<pc, raised>> ELSE Throw("shell")
    /\ lastOp' = Ran("add", file)
    /\ lastResult' = NoResult
    /\ UNCHANGED <<apiLog, existingPr, lastCommitChanges, remotePr, origin>>
    /\ QueryFrame

\* remove(file): git rm -f "<file>"
remove(file, outcome) ==
    /\ Active
    /\ IF outcome = "ok" THEN UNCHANGED <<pc, raised>> ELSE Throw("shell")
    /\ lastOp' = Ran("remove", file)
    /\ lastResult' = NoResult
    /\ UNCHANGED <<apiLog, existingPr, lastCommitChanges, remotePr, origin>>
    /\ QueryFrame

\* hasChanges(): git status --porcelain prints something
hasChanges(dirty) ==
    /\ Active
    /\ lastResult' = [value |-> dirty]
    /\ lastOp' = Ran("hasChanges", <<>>)
    /\ UNCHANGED <<pc, raised, apiLog, existingPr, lastCommitChanges, remotePr, origin>>
    /\ QueryFrame

\* Object.values(dict)
Values(dict) == [i \in 1..Len(dict) |-> dict[i].value]

StartsWith(str, prefix) ==
    Len(prefix) <= Len(str) /\ SubSeq(str, 1, Len(prefix)) = prefix

EndsWith(str, suffix) ==
    Len(suffix) <= Len(str)
        /\ SubSeq(str, Len(str) - Len(suffix) + 1, Len(str)) = suffix

\* changes(destination): git diff HEAD <destination>, parsed. segs is what
\* the working tree differs in under destination at this moment.
changes(destination, segs) ==
    /\ Active
    /\ lastResult' = [value |-> Values(parseGitDiffOutput(Trim(GitDiff(segs))))]
    /\ lastOp' = Ran("changes", segs)
    /\ UNCHANGED <<pc, raised, apiLog, existingPr, lastCommitChanges, remotePr, origin>>
    /\ QueryFrame

\* The diff of the push event that started the run (payload.before to
\* payload.after of the source repository)
EventSegs == <<[kind |-> "modified", file |-> PlainFile],
               [kind |-> "added", file |-> NestedFile]>>

\* The answer of getChangesFromLastCommit out of the map
ChangesOf(map, source) ==
    IF EndsWith(source, <<"/">>)
    THEN Values(SelectSeq(map, LAMBDA e : StartsWith(e.key, source)))
    ELSE Values(SelectSeq(map, LAMBDA e : e.key = source))

\* getChangesFromLastCommit(source)
getChangesFromLastCommit(source, outcome) ==
    /\ Active
    /\ IF lastCommitChanges.defined
       THEN /\ lastResult' = [value |-> ChangesOf(lastCommitChanges.map, source)]
            /\ lastOp' = Ran("getChangesFromLastCommit", <<"cached">>)
            /\ UNCHANGED <<pc, raised, apiLog, lastCommitChanges, origin>>
       ELSE /\ apiLog' = Append(apiLog, [op |-> "compareCommits",
                                        ok |-> (outcome = "ok")])
            /\ lastOp' = Ran("getChangesFromLastCommit", <<"compared">>)
            /\ IF outcome = "ok"
               THEN LET map == parseGitDiffOutput(GitDiff(EventSegs))
                    IN  /\ lastCommitChanges' = [defined |-> TRUE, map |-> map]
                        /\ lastResult' = [value |-> ChangesOf(map, source)]
                        /\ origin' = [origin EXCEPT !["lastCommitChanges"] = repo.name]
                        /\ UNCHANGED <<pc, raised>>
               ELSE /\ Throw("compareCommits failed")
                    /\ lastResult' = NoResult
                    /\ UNCHANGED <<lastCommitChanges, origin>>
    /\ UNCHANGED <<existingPr, remotePr>>
    /\ QueryFrame

\* The banner of setPrWarning and removePrWarning (its two signs left out),
\* and the blank line of the templates
Banner == "This PR is being automatically resynced"
Gap == "\n\n"

\* A pull request body is the sequence of its pieces
TextBody == <<"notes">>
FlaggedBody == <<Banner, Gap, "notes">>
NullBody == <<"<null>">>

\* `${ value }` in a template literal
Interpolate(value) == IF value = NullBody THEN <<"null">> ELSE value

\* `${ COMMIT_PREFIX } synced file(s) with ${ GITHUB_REPOSITORY }`
DefaultTitle == "COMMIT_PREFIX synced file(s) with GITHUB_REPOSITORY"

\* `${ FORK ? FORK : this.repo.user }:${ this.prBranch }`
PrHead == <<IF cfg.FORK # NoFork THEN cfg.FORK ELSE repo.user, ":">> \o prBranch

\* The open pull request a repository may hold for the branch of the
\* action when a pass starts: none, or one left by an earlier run
OpenBodies == {<<>>, TextBody, FlaggedBody, NullBody}

OpenPr(r, body) ==
    IF body = <<>> THEN NoPr
    ELSE [number |-> 5, title |-> DefaultTitle, body |-> body,
          head |-> <<IF cfg.FORK # NoFork THEN cfg.FORK ELSE r.user, ":">>
                       \o BranchName(r),
          base |-> <<r.branch>>]

\* findExistingPr(): pulls.list of the open pull requests of the head
findExistingPr ==
    /\ Active
    /\ LET data == IF remotePr # NoPr /\ remotePr.head = PrHead THEN remotePr ELSE NoPr
       IN  /\ existingPr' = data
           /\ lastResult' = [value |-> data]
           /\ origin' = [origin EXCEPT !["existingPr"] =
                             IF data # NoPr THEN repo.name ELSE Unset]
    /\ lastOp' = Ran("findExistingPr", <<>>)
    /\ UNCHANGED <<pc, raised, apiLog, lastCommitChanges, remotePr>>
    /\ QueryFrame

\* The body setPrWarning sends: dedent of banner, blank line, body (a body
\* here has no indented line, so dedent takes off the template's own
\* indentation and nothing else)
WarningBody(body) == <<Banner, Gap>> \o Interpolate(body)

\* How many banners a body carries
CountBanner(body) == Cardinality({ i \in 1..Len(body) : body[i] = Banner })

\* The bodies followed have at most this many pieces
MaxBodyLen == 5

\* setPrWarning(): pulls.update of the body
setPrWarning ==
    /\ Active
    /\ existingPr # NoPr => Len(WarningBody(existingPr.body)) <= MaxBodyLen
    /\ IF existingPr = NoPr
       THEN Throw("TypeError") /\ UNCHANGED remotePr
       ELSE /\ remotePr' = [remotePr EXCEPT !.body = WarningBody(existingPr.body)]
            /\ UNCHANGED <<pc, raised>>
    /\ lastOp' = Ran("setPrWarning", <<>>)
    /\ lastResult' = NoResult
    /\ UNCHANGED <<apiLog, existingPr, lastCommitChanges, origin>>
    /\ QueryFrame

\* removePrWarning(): pulls.update with body.replace(banner, '')
removePrWarning ==
    /\ Active
    /\ IF existingPr = NoPr \/ existingPr.body = NullBody
       THEN Throw("TypeError") /\ UNCHANGED remotePr
       ELSE /\ remotePr' = [remotePr EXCEPT
                               !.body = ReplaceFirst(existingPr.body, Banner, <<>>)]
            /\ UNCHANGED <<pc, raised>>
    /\ lastOp' = Ran("removePrWarning", <<>>)
    /\ lastResult' = NoResult
    /\ UNCHANGED <<apiLog, existingPr, lastCommitChanges, origin>>
    /\ QueryFrame

\* The body createOrUpdatePr sends
SyncBody(changedFiles) ==
    <<"synced local file(s) with GITHUB_REPOSITORY. PR_BODY", changedFiles,
      "This PR was created automatically">>

\* createOrUpdatePr(changedFiles, title). The platform refuses a second
\* open pull request for a head, and a head that names no branch.
createOrUpdatePr(changedFiles, title, outcome) ==
    /\ Active
    /\ IF existingPr # NoPr
       THEN IF outcome = "ok"
            THEN LET data == [remotePr EXCEPT !.title = DefaultTitle,
                                              !.body = SyncBody(changedFiles)]
                 IN  /\ remotePr' = data
                     /\ lastResult' = [value |-> data]
                     /\ UNCHANGED <<pc, raised, existingPr, origin>>
            ELSE /\ Throw("pulls.update failed")
                 /\ lastResult' = NoResult
                 /\ UNCHANGED <<remotePr, existingPr, origin>>
       ELSE IF outcome = "ok" /\ remotePr = NoPr /\ prBranch # <<Undefined>>
            THEN LET data == [number |-> 6,
                              title |-> IF title = Undefined THEN DefaultTitle ELSE title,
                              body |-> SyncBody(changedFiles),
                              head |-> PrHead, base |-> baseBranch]
                 IN  /\ remotePr' = data
                     /\ existingPr' = data
                     /\ lastResult' = [value |-> data]
                     /\ origin' = [origin EXCEPT !["existingPr"] = repo.name]
                     /\ UNCHANGED <<pc, raised>>
            ELSE /\ Throw("pulls.create failed")
                 /\ lastResult' = NoResult
                 /\ UNCHANGED <<remotePr, existingPr, origin>>
    /\ lastOp' = Ran("createOrUpdatePr", <<IF existingPr # NoPr THEN "update" ELSE "create",
                                           changedFiles, title>>)
    /\ UNCHANGED <<apiLog, lastCommitChanges>>
    /\ QueryFrame

\* addPrLabels, addPrAssignees, addPrReviewers, addPrTeamReviewers: each
\* one call on this.existingPr.number
addPrMetadata(operation) ==
    /\ Active
    /\ IF existingPr = NoPr THEN Throw("TypeError") ELSE UNCHANGED <<pc, raised>>
    /\ lastOp' = Ran(operation, <<>>)
    /\ lastResult' = NoResult
    /\ UNCHANGED <<apiLog, existingPr, lastCommitChanges, remotePr, origin>>
    /\ QueryFrame

\* One session object over several repositories
SessionConfigs ==
    [FORK : {NoFork}, IS_INSTALLATION_TOKEN : {TRUE}, SKIP_PR : {FALSE},
     OVERWRITE_EXISTING_PR : BOOLEAN,
     GITHUB_REPOSITORY : {ToolsRepository, DotRepository}]

SessionRepos == {RepoA, RepoB}

SessionTree == [EmptyTree EXCEPT ![<<"x.txt">>] = [mode |-> "100644", blob |-> "b1"]]

InitSession ==
    /\ Init
    /\ cfg \in SessionConfigs

NextSession ==
    \/ \E r \in SessionRepos, b \in OpenBodies, o \in {"ok", "fail"} :
          initRepo(r, EmptyTree, OpenPr(r, b), o)
    \/ \E ex \in BOOLEAN : createPrBranch(Undefined, "1700000000", ex, EmptyTree)
    \/ commit(Undefined, SessionTree)
    \/ push("ok")
    \/ \E o \in {"ok", "Reference already exists", "Not Found"} : createRef(o)
    \/ \E o \in {"ok", "commitFail"} : replay(o)
    \/ \E o \in {"ok", "fail"} : updateRef(o)
    \/ \E o \in {"ok", "fail"} : add(<<"x.txt">>, o)
    \/ \E o \in {"ok", "fail"} : remove(<<"x.txt">>, o)
    \/ \E d \in BOOLEAN : hasChanges(d)
    \/ changes(<<"x.txt">>, <<>>)
    \/ getChangesFromLastCommit(<<"x">>, "ok")
    \/ findExistingPr
    \/ setPrWarning
    \/ removePrWarning
    \/ createOrUpdatePr("files", Undefined, "ok")
    \/ addPrMetadata("addPrLabels")

SpecSession == InitSession /\ [][NextSession]_vars

\* One repository's pull request and the two diff queries, the session
\* being started again between passes
PrConfigs ==
    [FORK : {NoFork, "forkowner"}, IS_INSTALLATION_TOKEN : {TRUE}, SKIP_PR : {FALSE},
     OVERWRITE_EXISTING_PR : {TRUE}, GITHUB_REPOSITORY : {ToolsRepository}]

WorkSegs == { <<>>, <<[kind |-> "modified", file |-> PlainFile]>> }

Sources == { <<"x">>, <<"d", "/">>, <<"z">> }

InitPr ==
    /\ Init
    /\ cfg \in PrConfigs

NextPr ==
    \/ \E b \in OpenBodies, o \in {"ok", "fail"} :
          initRepo(RepoA, EmptyTree, OpenPr(RepoA, b), o)
    \/ createPrBranch(Undefined, "1700000000", FALSE, EmptyTree)
    \/ \E g \in WorkSegs : changes(<<"x.txt">>, g)
    \/ \E src \in Sources, o \in {"ok", "fail"} : getChangesFromLastCommit(src, o)
    \/ findExistingPr
    \/ setPrWarning
    \/ removePrWarning
    \/ \E f \in {"files"}, t \in {Undefined, "title"}, o \in {"ok", "fail"} :
          createOrUpdatePr(f, t, o)
    \/ \E op \in {"addPrLabels", "addPrAssignees", "addPrReviewers",
                  "addPrTeamReviewers"} : addPrMetadata(op)

SpecPr == InitPr /\ [][NextPr]_vars

(***************************************************************************)
(* Properties of the session                                               *)
(***************************************************************************)
\* C12 as claimed: once initRepo has run for a repository, every
\* per-repository field of the session is unset or was assigned in the pass
\* of that repository; nothing an earlier repository's pass computed is left.
C12_SessionIsolation ==
    pc # "constructed" =>
        \A f \in SessionFields : origin[f] \in {Unset, repo.name}

\* What C13 says of every state: the field holds the sha read at clone time
\* until createPrBranch refreshes it, the remote ref is created at it, the
\* first replayed commit has it as parent, and after a replayed commit it is
\* the sha the platform returned.
C13_State ==
    /\ (lastOp.name = "initRepo" /\ pc = "ready") => lastCommitSha = BaseSha
    /\ (pc = "ready" /\ prBranch = <<Undefined>>) => lastCommitSha = BaseSha
    /\ (lastOp.name = "createPrBranch" /\ cfg.OVERWRITE_EXISTING_PR) =>
          lastCommitSha = IF lastOp.input[3] THEN PriorSha ELSE BaseSha
    /\ \A i \in 1..Len(apiLog) :
          apiLog[i].op = "createRef" => apiLog[i].sha = preSha
    /\ pc \in {"createRef", "replay", "updateRef"} =>
          IF CreatedCommits = <<>> THEN lastCommitSha = preSha
          ELSE /\ CreatedCommits[1].parents = <<preSha>>
               /\ lastCommitSha = CreatedCommits[Len(CreatedCommits)].sha

\* What C13 says of every step: the field changes in initRepo, in
\* createPrBranch when existing pull requests are overwritten, and when the
\* platform has created a commit during the replay; in no other step.
C13_Step ==
    lastCommitSha' # lastCommitSha =>
        \/ lastOp'.name = "initRepo"
        \/ lastOp'.name = "createPrBranch" /\ cfg.OVERWRITE_EXISTING_PR
        \/ /\ lastOp'.name = "push"
           /\ pc = "replay"
           /\ Len(apiLog') > Len(apiLog)
           /\ apiLog'[Len(apiLog')].op = "createCommit"
           /\ apiLog'[Len(apiLog')].ok
           /\ apiLog'[Len(apiLog')].sha = lastCommitSha'

\* C13: lastCommitSha is the sha captured at clone time until it is
\* refreshed; it changes only in initRepo, in createPrBranch under the
\* overwrite policy and on each commit the platform creates during the
\* replay, and in no staging, diff or pull request operation; the commits to
\* push start from it and the remote ref is created at it.
C13_LastCommitSha == []C13_State /\ [][C13_Step]_vars

\* A pass that switched to the branch of an earlier run, replayed a commit
\* on the platform and then touched the pull request
C13_Witness ==
    /\ pc = "done"
    /\ preSha = PriorSha
    /\ Len(CreatedCommits) = 1
    /\ lastCommitSha = CreatedCommits[1].sha
    /\ lastOp.name = "createOrUpdatePr"

\* C16 as claimed: createPrBranch computes <prefix>/<repo.branch>, the
\* placeholder of the prefix replaced by the name part of GITHUB_REPOSITORY
\* and "/." collapsed to "/" ("repo-sync/tools/main" for org/tools and main);
\* when existing pull requests are not overwritten the name gets
\* "-<timestamp>" and a new branch of that name is created and checked out,
\* otherwise the name has no timestamp and is the branch checked out.
C16_BranchName ==
    lastOp.name = "createPrBranch" =>
        LET name == <<"repo-sync", "/",
                      IF cfg.GITHUB_REPOSITORY = ToolsRepository THEN "tools"
                      ELSE "github",
                      "/", repo.branch>>
        IN  IF cfg.OVERWRITE_EXISTING_PR
            THEN prBranch = name /\ localBranch = name
            ELSE /\ prBranch = name \o <<"-", lastOp.input[2]>>
                 /\ localBranch = prBranch
                 /\ raised = NoError

(***************************************************************************)
(* Properties of the pull request operations                               *)
(***************************************************************************)
\* createOrUpdatePr has returned
PrReturned == lastOp.name = "createOrUpdatePr" /\ pc # "failed"

\* What the pull request of the platform is after the call, as C17 says
C17_Remote ==
    PrReturned =>
        IF lastOp.input[1] = "update"
        THEN /\ remotePr.number = existingPr.number
             /\ remotePr.title = DefaultTitle
             /\ remotePr.body = SyncBody(lastOp.input[2])
        ELSE /\ remotePr.title = (IF lastOp.input[3] = Undefined THEN DefaultTitle
                                  ELSE lastOp.input[3])
             /\ remotePr.body = SyncBody(lastOp.input[2])
             /\ remotePr.head = PrHead
             /\ remotePr.base = baseBranch

\* A pull request is created only by a session that holds no handle
C17_Step ==
    (remotePr' # NoPr /\ remotePr'.number # remotePr.number
        /\ lastOp'.name # "initRepo") =>
        /\ lastOp'.name = "createOrUpdatePr"
        /\ existingPr = NoPr

\* C17 as claimed: a pull request is created only while no handle is held;
\* with a handle the pull request is updated in place with the new body and
\* the default title, without one it is created with the given title (or
\* the default), head <owner>:<prBranch> and base baseBranch; and after
\* either path the handle of the session is the object the call returned.
C17_CreateOrUpdate ==
    /\ [](C17_Remote /\ (PrReturned => existingPr = lastResult.value))
    /\ [][C17_Step]_vars

\* After a returned setPrWarning the body has the banner once, in front;
\* after a returned removePrWarning it has none
C18_State ==
    /\ (lastOp.name = "setPrWarning" /\ pc # "failed") =>
          /\ remotePr.body[1] = Banner
          /\ CountBanner(remotePr.body) = 1
    /\ (lastOp.name = "removePrWarning" /\ pc # "failed") =>
          CountBanner(remotePr.body) = 0

\* A second setPrWarning right after the first leaves the body as it is
C18_Step ==
    (lastOp.name = "setPrWarning" /\ lastOp'.name = "setPrWarning"
        /\ pc # "failed" /\ pc' # "failed") =>
        remotePr'.body = remotePr.body

\* C18 as claimed: for every body of the pull request, one that already
\* carries the banner included, setPrWarning leaves the banner exactly once
\* at the front, a second setPrWarning changes nothing, and removePrWarning
\* leaves a body without the banner.
C18_WarningIdempotent == []C18_State /\ [][C18_Step]_vars

(***************************************************************************)
(* Properties of the two diff queries                                      *)
(***************************************************************************)
\* In the pass of one repository the compare call is issued at most once,
\* a changes call answers from the working tree of that moment, and a new
\* session starts without a map
C19_State ==
    /\ NumCalls("compareCommits") <= 1
    /\ lastOp.name = "changes" =>
          lastResult.value = Values(parseGitDiffOutput(Trim(GitDiff(lastOp.input))))
    /\ lastOp.name = "initRepo" => ~lastCommitChanges.defined

\* Once the map is held a last-commit query issues no call and keeps the map
C19_Step ==
    (lastCommitChanges.defined /\ lastOp'.name = "getChangesFromLastCommit") =>
        /\ apiLog' = apiLog
        /\ lastCommitChanges' = lastCommitChanges

\* C19 as claimed: in one session the compare call is issued at most once
\* and every later last-commit query is answered from the cached map, every
\* changes call runs a fresh diff of the working tree, and the cache lasts
\* for one session only.
C19_DiffCache == []C19_State /\ [][C19_Step]_vars

(***************************************************************************)
(* createGithubCommit call by call: the uploads of one commit in flight    *)
(***************************************************************************)
\* The commit being replayed and the entries it uploads
CurrentCommit == commits[idx]

CurrentBlobs ==
    blobsToCreate(getTreeDiff(getTreeId(CurrentCommit), getParentTreeId(CurrentCommit)))

\* Faulty variant: the wait is over as soon as one upload has succeeded.
uploadsFulfilled_any(calls) ==
    calls = <<>> \/ \E i \in 1..Len(calls) : calls[i].at = "fulfilled"

\* Promise.all(promises) fulfils once every promise has
uploadsFulfilled(calls) == \A i \in 1..Len(calls) : calls[i].at = "fulfilled"

\* Promise.all(promises) rejects as soon as one promise has
uploadsRejected(calls) == \E i \in 1..Len(calls) : calls[i].at = "rejected"

\* What the steps of the replay leave alone
UploadFrame ==
    /\ lastOp' = Ran("push", <<>>)
    /\ lastResult' = NoResult
    /\ UNCHANGED <<cfg, repo, prBranch, baseBranch, localBranch, headTree,
                   localCommits, commits, preSha>>
    /\ UNCHANGED <<copyVars, parseVars, fieldVars, remotePr, origin>>

\* createGithubCommit up to await Promise.all(blobsToCreate.map(...)): every
\* uploadGitHubBlob is called and runs up to its own first await
startUploads ==
    /\ pc = "replay"
    /\ idx <= Len(commits)
    /\ IF IsLocal(CurrentCommit)
       THEN /\ blobUploads' = [i \in 1..Len(CurrentBlobs) |->
                                 [blob |-> CurrentBlobs[i].newBlob, at |-> "cat-file"]]
            /\ awaited' = "pending"
            /\ pc' = "uploading"
            /\ UNCHANGED raised
       ELSE \* git cat-file -p of no commit: the command fails
            /\ pc' = "failed"
            /\ raised' = "shell"
            /\ UNCHANGED <<blobUploads, awaited>>
    /\ UNCHANGED <<apiLog, lastCommitSha, idx>>
    /\ UploadFrame

\* uploadGitHubBlob, first half: git cat-file -p <blob> returns and the
\* createBlob request is sent, or the command fails
readBlob(i, outcome) ==
    /\ pc \in {"uploading", "failed"}
    /\ i \in 1..Len(blobUploads)
    /\ blobUploads[i].at = "cat-file"
    /\ blobUploads' = [blobUploads EXCEPT
                          ![i].at = IF outcome = "ok" THEN "createBlob" ELSE "rejected"]
    /\ UNCHANGED <<pc, raised, apiLog, lastCommitSha, idx, awaited>>
    /\ UploadFrame

\* uploadGitHubBlob, second half: the platform answers the createBlob request
completeBlob(i, outcome) ==
    /\ pc \in {"uploading", "failed"}
    /\ i \in 1..Len(blobUploads)
    /\ blobUploads[i].at = "createBlob"
    /\ blobUploads' = [blobUploads EXCEPT
                          ![i].at = IF outcome = "ok" THEN "fulfilled" ELSE "rejected"]
    /\ apiLog' = Append(apiLog, [BlobCall(CurrentCommit, CurrentBlobs[i])
                                    EXCEPT !.ok = (outcome = "ok")])
    /\ UNCHANGED <<pc, raised, lastCommitSha, idx, awaited>>
    /\ UploadFrame

\* await Promise.all(...) settles: createGithubCommit goes on to the tree,
\* or throws while the other uploads are still on their way
awaitUploads ==
    /\ pc = "uploading"
    /\ awaited = "pending"
    /\ IF uploadsRejected(blobUploads)
       THEN /\ awaited' = "rejected"
            /\ pc' = "failed"
            /\ raised' = "upload failed"
       ELSE /\ uploadsFulfilled(blobUploads)
            /\ awaited' = "fulfilled"
            /\ pc' = "createTree"
            /\ UNCHANGED raised
    /\ UNCHANGED <<apiLog, lastCommitSha, idx, blobUploads>>
    /\ UploadFrame

\* github.git.createTree and its catch
createTree(outcome) ==
    /\ pc = "createTree"
    /\ apiLog' = Append(apiLog, [TreeCall(CurrentCommit) EXCEPT !.ok = (outcome = "ok")])
    /\ IF outcome = "ok"
       THEN pc' = "createCommit" /\ UNCHANGED raised
       ELSE pc' = "failed" /\ raised' = wrapTreeError("failed")
    /\ UNCHANGED <<lastCommitSha, idx, uploadVars>>
    /\ UploadFrame

\* github.git.createCommit and this.lastCommitSha = request.data.sha
createCommit(outcome) ==
    /\ pc = "createCommit"
    /\ apiLog' = Append(apiLog, [CommitCall(CurrentCommit) EXCEPT !.ok = (outcome = "ok")])
    /\ IF outcome = "ok"
       THEN /\ lastCommitSha' = CommitCall(CurrentCommit).sha
            /\ idx' = idx + 1
            /\ pc' = IF idx + 1 > Len(commits) THEN "updateRef" ELSE "replay"
            /\ blobUploads' = <<>>
            /\ awaited' = "none"
            /\ UNCHANGED raised
       ELSE /\ pc' = "failed"
            /\ raised' = "createCommit failed"
            /\ UNCHANGED <<lastCommitSha, idx, uploadVars>>
    /\ UploadFrame

UploadConfigs ==
    [FORK : {NoFork}, IS_INSTALLATION_TOKEN : {TRUE}, SKIP_PR : {FALSE},
     OVERWRITE_EXISTING_PR : {TRUE}, GITHUB_REPOSITORY : {ToolsRepository}]

\* The trees committed: each differs from the one before in up to three
\* uploaded files
UploadTrees ==
    { [EmptyTree EXCEPT ![<<"x.txt">>] = [mode |-> "100644", blob |-> "b1"],
                        ![<<"y.txt">>] = [mode |-> "100755", blob |-> "b1"],
                        ![<<"a", "b.txt">>] = [mode |-> "100644", blob |-> "b2"]],
      [EmptyTree EXCEPT ![<<"x.txt">>] = [mode |-> "100644", blob |-> "b2"]] }

InitUpload ==
    /\ Init
    /\ cfg \in UploadConfigs

NextUpload ==
    \/ pc = "constructed" /\ initRepo(RepoA, EmptyTree, NoPr, "ok")
    \/ createPrBranch(Undefined, "1700000000", FALSE, EmptyTree)
    \/ \E t \in UploadTrees : commit(Undefined, t)
    \/ push("ok")
    \/ createRef("ok")
    \/ startUploads
    \/ \E i \in 1..3, o \in {"ok", "fail"} : readBlob(i, o)
    \/ \E i \in 1..3, o \in {"ok", "fail"} : completeBlob(i, o)
    \/ awaitUploads
    \/ \E o \in {"ok", "fail"} : createTree(o)
    \/ \E o \in {"ok", "fail"} : createCommit(o)
    \/ updateRef("ok")

SpecUpload == InitUpload /\ [][NextUpload]_vars

(***************************************************************************)
(* Properties of the concurrent uploads                                    *)
(***************************************************************************)
\* The entries a commit uploads
BlobsOf(commitSha) ==
    blobsToCreate(getTreeDiff(getTreeId(commitSha), getParentTreeId(commitSha)))

\* The places of the log where an upload of the commit was answered
AnsweredUploads(commitSha, ok) ==
    { i \in 1..Len(apiLog) : /\ apiLog[i].op = "createBlob"
                             /\ apiLog[i].commit = commitSha
                             /\ apiLog[i].ok = ok }

\* C20: the uploads of one replayed commit are in flight together and are
\* awaited together. Whatever the order in which they are answered, the
\* tree of the commit is created only after every one of them has
\* succeeded, the tree and the commit sent are those the commit determines,
\* and once an upload has failed no tree and no commit is created for it.
C20_ConcurrentUploads ==
    /\ pc \in {"createTree", "createCommit"} => uploadsFulfilled(blobUploads)
    /\ uploadsRejected(blobUploads) => pc \in {"uploading", "failed"}
    /\ \A j \in 1..Len(apiLog) :
          LET c == apiLog[j].commit
          IN  /\ apiLog[j].op = "createTree" =>
                    /\ Cardinality({ i \in AnsweredUploads(c, TRUE) : i < j })
                          = Len(BlobsOf(c))
                    /\ \A b \in {"b1", "b2"} :
                          Cardinality({ i \in AnsweredUploads(c, TRUE) :
                                           apiLog[i].blob = b })
                            = Cardinality({ k \in 1..Len(BlobsOf(c)) :
                                               BlobsOf(c)[k].newBlob = b })
                    /\ AnsweredUploads(c, FALSE) = {}
                    /\ \A i \in AnsweredUploads(c, TRUE) : i < j
                    /\ apiLog[j].tree = TreeCall(c).tree
                    /\ apiLog[j].base_tree = TreeCall(c).base_tree
                    /\ apiLog[j].result = TreeCall(c).result
              /\ apiLog[j].op = "createCommit" =>
                    /\ AnsweredUploads(c, FALSE) = {}
                    /\ apiLog[j].tree = TreeCall(c).result
                    /\ apiLog[j].message = getCommitMessage(c)
                    /\ \E i \in 1..(j - 1) :
                          apiLog[i].op = "createTree" /\ apiLog[i].commit = c
                              /\ apiLog[i].ok

\* A commit whose three uploads were answered in another order than they
\* were sent (the last one sent first), and whose tree and commit exist
C20_Witness ==
    \E j \in 1..Len(apiLog) :
        /\ apiLog[j].op = "createCommit"
        /\ apiLog[j].ok
        /\ Len(BlobsOf(apiLog[j].commit)) = 3
        /\ \E i \in AnsweredUploads(apiLog[j].commit, TRUE) :
              /\ apiLog[i].blob = BlobsOf(apiLog[j].commit)[3].newBlob
              /\ \A k \in AnsweredUploads(apiLog[j].commit, TRUE) : i <= k
        /\ BlobsOf(apiLog[j].commit)[3].newBlob # BlobsOf(apiLog[j].commit)[1].newBlob

(***************************************************************************)
(* Properties of the pull request branch and of an empty replay            *)
(***************************************************************************)
\* C21 as claimed: once createPrBranch has returned, with or without a
\* suffix, prBranch is the branch checked out in the clone; the branch
\* pushed to the fork, the ref the publisher creates and updates for a pull
\* request and the head findExistingPr searches all name that branch.
C21_PrBranchCheckedOut ==
    (prBranch # <<Undefined>> /\ pc # "branchFailed") =>
        /\ prBranch = localBranch
        /\ PrHead = <<IF cfg.FORK # NoFork THEN cfg.FORK ELSE repo.user, ":">>
                        \o localBranch
        /\ \A i \in 1..Len(apiLog) :
              /\ (apiLog[i].op = "gitPush" /\ apiLog[i].remote = "fork") =>
                    apiLog[i].branch = localBranch
              /\ apiLog[i].op = "createRef" =>
                    apiLog[i].ref = <<"refs/heads/">> \o localBranch
              /\ (apiLog[i].op = "updateRef" /\ cfg.SKIP_PR = FALSE) =>
                    apiLog[i].ref = <<"heads/">> \o localBranch

\* The publisher was started with no local commit after lastCommitSha
EmptyReplay == PublisherRan /\ localCommits = <<>>

\* C22 as claimed: a publisher run with nothing to push uploads no blob and
\* creates no tree and no commit, leaves lastCommitSha as it was, and ends
\* after the creation of the branch ref (if any) with the update of the ref
\* to that sha.
C22_EmptyReplay ==
    EmptyReplay =>
        /\ NumCalls("createBlob") = 0
        /\ NumCalls("createTree") = 0
        /\ NumCalls("createCommit") = 0
        /\ lastCommitSha = preSha
        /\ pc = "failed" => raised \in {"Not Found", "updateRef failed"}
        /\ pc = "done" =>
              /\ NumCalls("updateRef") = 1
              /\ Calls("updateRef")[1].sha = preSha

====
